---- MODULE Spec2Model ----
(***************************************************************************)
(* A model of the noveum-ai-gateway request lifecycle:                     *)
(*   - the request pipeline (src/proxy/mod.rs) with the six providers,     *)
(*   - the streaming tee and unary path of the telemetry middleware        *)
(*     (src/telemetry/middleware.rs),                                      *)
(*   - the metrics registry and its exporter fan-out                       *)
(*     (src/telemetry/metrics.rs),                                         *)
(*   - the Anthropic streaming extractor with its input-token slot         *)
(*     (src/providers/anthropic.rs).                                       *)
(* Header values, bodies and chunks are drawn from small catalogues; an    *)
(* absent header or a Rust None is the value None.                         *)
(***************************************************************************)
EXTENDS Integers, Sequences, FiniteSets, TLC

\* ------------------------------------------------------------------------
\* State
\* ------------------------------------------------------------------------

VARIABLES
    pc,          \* the position of the request in the pipeline
    req,         \* the inbound request
    provider,    \* the provider create_provider returned
    headers,     \* the outbound header set, unsigned or signed
    path,        \* the transformed path
    body,        \* the prepared body
    url,         \* the outbound URL
    sent,        \* the outbound requests handed to the HTTP client, in order
    upstream,    \* the upstream's answer
    response,    \* the response as built so far
    error,       \* the AppError the pipeline returned
    client       \* the response the client receives

pipeVars ==
    <<pc, req, provider, headers, path, body, url, sent, upstream, response,
      error, client>>

VARIABLES
    tProvider,     \* the x-provider value the middleware read
    teePc,         \* the middleware / the spawned tee task: its position
    produced,      \* the chunks the upstream stream has yielded, in order
    held,          \* the chunk the task is about to forward
    channel,       \* the chunks in the channel between task and client body
    forwarded,     \* the chunks whose tx.send returned Ok, in order
    delivered,     \* the chunks the client has received, in order
    rxAlive,       \* the client still holds the response body (the receiver)
    sendFailed,    \* a tx.send returned an error
    clientEnded,   \* the client has seen the end of the stream
    acc,           \* the task's accumulators
    records,       \* the records handed to registry.record_metrics, in order
    exportStarted  \* an export of the record has begun

teeVars ==
    <<tProvider, teePc, produced, held, channel, forwarded, delivered, rxAlive,
      sendFailed, clientEnded, acc, records, exportStarted>>

VARIABLES
    regPhase,   \* "startup" while main registers exporters, then "serving"
    exporters,  \* the registry's Vec of exporters, by name
    readers,    \* the read guards held on the exporters lock
    callPc,     \* the caller inside record_metrics: "idle" or "spawning"
    callNames,  \* exporter_names still to spawn a task for
    inResp,     \* per call, the status of the response the caller holds
    outResp,    \* per returned call, the status of the response it returned
    tasks       \* per call and exporter name, the spawned task's position

regVars ==
    <<regPhase, exporters, readers, callPc, callNames, inResp, outResp, tasks>>

VARIABLES
    slot,     \* ANTHROPIC_INPUT_TOKENS, per thread
    sStart,   \* per stream, the input tokens of its message_start
    sPos,     \* per stream, the events its extractor has processed
    sFinal    \* per stream, the metrics returned for its message_delta

slotVars == <<slot, sStart, sPos, sFinal>>

VARIABLES
    esPc,        \* the Elasticsearch export of one record: its position
    esRecord,    \* the record handed to the exporter: its path and status
    esLeft,      \* the delays left in the retry strategy
    esOutcomes,  \* the outcome of every index attempt made, in order
    esResult,    \* what export_metrics returned
    esLogged     \* the registry's "Failed to export metrics" log lines

esVars == <<esPc, esRecord, esLeft, esOutcomes, esResult, esLogged>>

VARIABLES
    bPc,     \* per Bedrock request, its position in proxy_request_to_provider
    bReq,    \* per Bedrock request, the model, stream flag and region it names
    bInst,   \* the BedrockProvider instances: the fields behind their locks
    bUuid,   \* the number of Uuid::new_v4() values drawn so far
    bFp,     \* per request, the fingerprint its before_request generated
    bPath,   \* per request, the path transform_path returned
    bUrl,    \* per request, the outbound URL
    bSig,    \* per request, the region and host sign_aws_request signed
    bBody,   \* per request, the model named in its translated unary response
    bSeen,   \* per request, the upstream event-stream chunks, in order
    bOut     \* per request, the translated chunks sent to the client, in order

bedVars ==
    <<bPc, bReq, bInst, bUuid, bFp, bPath, bUrl, bSig, bBody, bSeen, bOut>>

VARIABLES
    tkPc,     \* the telemetry middleware around one request: its position
    tkReq,    \* the request and the tracking headers it carries
    tkIds,    \* project_id, org_id, user_id, experiment_id as read
    tkOut,    \* the outbound headers the provider built
    tkResp,   \* the response the handler returned
    tkRecord  \* the RequestMetrics value built for the response

trackVars == <<tkPc, tkReq, tkIds, tkOut, tkResp, tkRecord>>

VARIABLES
    aPc,   \* the translation of one Anthropic unary response: its position
    aIn,   \* the parsed Anthropic response body
    aOut   \* the OpenAI-format body built from it

anthVars == <<aPc, aIn, aOut>>

VARIABLES
    mwPc,          \* metrics_middleware around one unary request: its position
    mwIn,          \* the inbound request
    mwProvider,    \* `provider`, as read from x-provider
    mwExt,         \* the extractor get_metrics_extractor returned
    mwSize,        \* req_size
    mwReqBody,     \* whether req_body is Some
    mwNew,         \* the request handed to next.run
    mwDispatched,  \* the provider the handler created for the request
    mwUpstream,    \* the body an Anthropic upstream answered with
    mwResp,        \* the response body the handler returned
    mwRecord       \* the RequestMetrics value built for the response

mwVars ==
    <<mwPc, mwIn, mwProvider, mwExt, mwSize, mwReqBody, mwNew, mwDispatched,
      mwUpstream, mwResp, mwRecord>>

VARIABLES
    lExporters,  \* a registry's Vec of exporters: the name each one reports
    lWriter,     \* the name of the exporter register_exporter waits to push
    lReaders,    \* the read guards held on the exporters lock
    lRecords,    \* the records passed to record_metrics so far
    lSnap,       \* per record, the exporters registered when it was passed
    lTasks,      \* the spawned tasks: record, name, position
    lCalls       \* per record and exporter, its export_metrics calls

listVars == <<lExporters, lWriter, lReaders, lRecords, lSnap, lTasks, lCalls>>

None == "<none>"

\* ------------------------------------------------------------------------
\* Bounds of the model
\* ------------------------------------------------------------------------

\* Clock readings SystemTime::now() can return, in ticks.
MaxTick == 3
\* Clock ticks per second: x-amz-date has a resolution of one second.
TicksPerSecond == 2

\* ------------------------------------------------------------------------
\* Inbound requests
\* ------------------------------------------------------------------------

\* Values of the x-provider request header (None: header absent).
XProviderValues ==
    {None, "openai", "OpenAI", "anthropic", "bedrock", "groq", "fireworks",
     "together", "azure", ""}

\* A header value with a byte that is no visible ASCII: "Bearer k\xE9y"
OpaqueAuth == "Bearer k<E9>y"

\* Values of the authorization request header (None: header absent).
AuthValues == {None, "", "Bearer ", "Bearer sk", "sk", OpaqueAuth}

\* headers.get(name).and_then(|h| h.to_str().ok()): an absent header and a
\* value that is no visible ASCII both give None
ToStr(v) == IF v = OpaqueAuth THEN None ELSE v

BearerPrefixLen == 7

\* str::len of an authorization value
AuthLen(a) ==
    CASE a = ""          -> 0
      [] a = "Bearer "   -> 7
      [] a = "Bearer sk" -> 9
      [] a = "sk"        -> 2

\* str::starts_with("Bearer ")
StartsWithBearer(a) == a \in {"Bearer ", "Bearer sk"}

\* str::trim().is_empty(): "Bearer " trims to "Bearer", which is not empty
TrimIsEmpty(a) == a = ""

\* str::trim_start_matches("Bearer ")
TrimStartBearer(a) ==
    CASE a = "Bearer "   -> ""
      [] a = "Bearer sk" -> "sk"
      [] OTHER           -> a

\* format!("Bearer {}", key)
BearerOf(key) == "Bearer " \o key

BodyKinds == {"chat", "chat_stream", "no_messages", "not_json"}

Paths == {"/v1/chat/completions"}

\* The provider a header value is dispatched to (None when unsupported).
DispatchOf(x) ==
    CASE x \in {None, "openai", "OpenAI"} -> "openai"
      [] x \in {"anthropic", "groq", "fireworks", "together", "bedrock"} -> x
      [] OTHER -> None

\* The inbound requests of the catalogue. A header or body that the dispatched
\* provider never reads is left at its default.
Requests ==
    {r \in [xprovider : XProviderValues,
            auth      : AuthValues,
            magic     : {None, "mk"},
            openaiOrg : {None, "org-1"},
            awsKey    : {None, "AKID"},
            awsSecret : {None, "SECRET"},
            awsRegion : {None, "eu-west-1"},
            path      : Paths,
            body      : BodyKinds] :
        /\ DispatchOf(r.xprovider) # "openai" => r.magic = None /\ r.openaiOrg = None
        /\ DispatchOf(r.xprovider) # "bedrock" =>
              /\ r.awsKey = None /\ r.awsSecret = None /\ r.awsRegion = None
              /\ r.body = "chat"
        /\ DispatchOf(r.xprovider) \in {"bedrock", None} => r.auth = None}

NoRequest == [xprovider |-> None, auth |-> None, magic |-> None,
              openaiOrg |-> None, awsKey |-> None,
              awsSecret |-> None, awsRegion |-> None,
              path |-> "/v1/chat/completions", body |-> "chat"]

\* serde_json::from_slice(body) succeeds
BodyIsJson(b) == b # "not_json"

\* request_body.get("stream").and_then(as_bool).unwrap_or(false)
BodyStream(b) == b = "chat_stream"

\* body.get("messages").and_then(as_array) is Some
BodyHasMessages(b) == b \in {"chat", "chat_stream"}

\* ------------------------------------------------------------------------
\* Errors (src/error.rs)
\* ------------------------------------------------------------------------

ErrorKinds ==
    {"ReqwestError", "IoError", "AxumError", "InvalidMethod", "InvalidStatus",
     "InvalidHeader", "UnsupportedProvider", "MissingApiKey",
     "InvalidRequestFormat", "UnsupportedModel", "JsonError", "AwsSigningError",
     "AwsParamsError", "InvalidHeaderValue", "RequestError"}

\* AppError::into_response: the status of each error kind
ErrorStatus(e) ==
    CASE e = "ReqwestError"         -> 502
      [] e = "IoError"              -> 500
      [] e = "AxumError"            -> 500
      [] e = "InvalidMethod"        -> 400
      [] e = "InvalidStatus"        -> 502
      [] e = "InvalidHeader"        -> 400
      [] e = "UnsupportedProvider"  -> 400
      [] e = "MissingApiKey"        -> 401
      [] e = "InvalidRequestFormat" -> 400
      [] e = "UnsupportedModel"     -> 400
      [] e = "JsonError"            -> 400
      [] e = "AwsSigningError"      -> 500
      [] e = "AwsParamsError"       -> 500
      [] e = "InvalidHeaderValue"   -> 400
      [] e = "RequestError"         -> 400

Ok(v) == [ok |-> TRUE, val |-> v, err |-> None]
Err(e) == [ok |-> FALSE, val |-> None, err |-> e]

\* ------------------------------------------------------------------------
\* Providers (src/providers)
\* ------------------------------------------------------------------------

KnownProviders == {"openai", "anthropic", "groq", "fireworks", "together", "bedrock"}

\* str::to_lowercase on the header values of the catalogue
ToLowercase(s) ==
    CASE s = "OpenAI" -> "openai"
      [] s \in {"Anthropic", "ANTHROPIC"} -> "anthropic"
      [] s = "Groq" -> "groq"
      [] OTHER -> s

\* handlers::proxy_request: headers.get("x-provider")...unwrap_or("openai")
HeaderProvider(r) == IF r.xprovider = None THEN "openai" ELSE r.xprovider

\* A mutant of create_provider: an unsupported name falls back to OpenAI.
create_provider_fallback(name) ==
    IF ToLowercase(name) \in KnownProviders
    THEN Ok(ToLowercase(name))
    ELSE Ok("openai")

\* providers::create_provider
create_provider(name) ==
    IF ToLowercase(name) \in KnownProviders
    THEN Ok(ToLowercase(name))
    ELSE Err("UnsupportedProvider")

\* Outbound header names the providers and the signer can set.
OutHeaderNames ==
    {"content-type", "accept", "authorization", "x-api-key", "anthropic-version",
     "x-aws-access-key-id", "x-aws-secret-access-key", "x-aws-region",
     "host", "x-amz-target",
     "x-project-id", "x-organization-id", "x-organisation-id", "x-user-id",
     "x-experiment-id", "openai-organization"}

\* HeaderMap::new()
EmptyHeaders == [h \in OutHeaderNames |-> None]

Insert(hs, name, value) == [hs EXCEPT ![name] = value]

\* OpenAIProvider::process_headers
openai_process_headers(r) ==
    LET base == Insert(EmptyHeaders, "content-type", "application/json") IN
    IF r.magic # None
    THEN Ok(Insert(base, "authorization", BearerOf(r.magic)))
    ELSE IF ToStr(r.auth) # None
    THEN Ok(Insert(base, "authorization", ToStr(r.auth)))
    ELSE Err("MissingApiKey")

\* A mutant of anthropic_process_headers: the authorization header is
\* forwarded next to x-api-key
anthropic_process_headers_keep_auth(r) ==
    LET base == Insert(Insert(EmptyHeaders, "content-type", "application/json"),
                       "anthropic-version", "2023-06-01")
        auth == ToStr(r.auth) IN
    IF auth # None
    THEN Ok(Insert(Insert(base, "x-api-key", TrimStartBearer(auth)),
                   "authorization", auth))
    ELSE Err("MissingApiKey")

\* AnthropicProvider::process_headers
anthropic_process_headers(r) ==
    LET base == Insert(Insert(EmptyHeaders, "content-type", "application/json"),
                       "anthropic-version", "2023-06-01")
        auth == ToStr(r.auth) IN
    IF auth # None
    THEN Ok(Insert(base, "x-api-key", TrimStartBearer(auth)))
    ELSE Err("MissingApiKey")

\* GroqProvider::process_headers
groq_process_headers(r) ==
    LET base == Insert(EmptyHeaders, "content-type", "application/json")
        auth == ToStr(r.auth) IN
    IF auth # None
    THEN Ok(Insert(base, "authorization", auth))
    ELSE Err("MissingApiKey")

\* A mutant of fireworks_process_headers: the token is not checked
fireworks_process_headers_unchecked(r) ==
    LET base == Insert(Insert(EmptyHeaders, "content-type", "application/json"),
                       "accept", "application/json")
        auth == ToStr(r.auth) IN
    IF auth = None THEN Err("MissingApiKey")
    ELSE IF TrimIsEmpty(auth) THEN Err("InvalidHeader")
    ELSE IF ~StartsWithBearer(auth) THEN Err("InvalidHeader")
    ELSE Ok(Insert(base, "authorization", auth))

\* FireworksProvider::process_headers
fireworks_process_headers(r) ==
    LET base == Insert(Insert(EmptyHeaders, "content-type", "application/json"),
                       "accept", "application/json")
        auth == ToStr(r.auth) IN
    IF auth = None THEN Err("MissingApiKey")
    ELSE IF TrimIsEmpty(auth) THEN Err("InvalidHeader")
    ELSE IF ~StartsWithBearer(auth) THEN Err("InvalidHeader")
    ELSE IF AuthLen(auth) <= BearerPrefixLen THEN Err("InvalidHeader")
    ELSE Ok(Insert(base, "authorization", auth))

\* TogetherProvider::process_headers
together_process_headers(r) ==
    LET base == Insert(EmptyHeaders, "content-type", "application/json")
        auth == ToStr(r.auth) IN
    IF auth = None THEN Err("MissingApiKey")
    ELSE IF ~StartsWithBearer(auth) THEN Err("InvalidHeader")
    ELSE IF AuthLen(auth) <= BearerPrefixLen THEN Err("InvalidHeader")
    ELSE Ok(Insert(base, "authorization", auth))

\* BedrockProvider::process_headers: content-type plus every x-aws-* header
bedrock_process_headers(r) ==
    Ok([EmptyHeaders EXCEPT
          !["content-type"] = "application/json",
          !["x-aws-access-key-id"] = r.awsKey,
          !["x-aws-secret-access-key"] = r.awsSecret,
          !["x-aws-region"] = r.awsRegion])

\* Provider::process_headers, dispatched on the provider
process_headers(p, r) ==
    CASE p = "openai"    -> openai_process_headers(r)
      [] p = "anthropic" -> anthropic_process_headers(r)
      [] p = "groq"      -> groq_process_headers(r)
      [] p = "fireworks" -> fireworks_process_headers(r)
      [] p = "together"  -> together_process_headers(r)
      [] p = "bedrock"   -> bedrock_process_headers(r)

\* Provider::requires_signing
requires_signing(p) == p = "bedrock"

DefaultRegion == "us-east-1"

\* BedrockProvider::before_request: the region the provider holds afterwards
bedrock_region(r) == IF r.awsRegion # None THEN r.awsRegion ELSE DefaultRegion

\* Provider::get_signing_credentials (None by default, Bedrock's from the
\* processed headers); some = FALSE is Option::None
get_signing_credentials(p, hs, r) ==
    [some   |-> /\ p = "bedrock"
                /\ hs["x-aws-access-key-id"] # None
                /\ hs["x-aws-secret-access-key"] # None,
     key    |-> hs["x-aws-access-key-id"],
     secret |-> hs["x-aws-secret-access-key"],
     region |-> IF hs["x-aws-region"] # None THEN hs["x-aws-region"]
                ELSE bedrock_region(r)]

\* format!("https://bedrock-runtime.{}.amazonaws.com", region)
BedrockBaseUrl(region) ==
    IF region = "eu-west-1"
    THEN "https://bedrock-runtime.eu-west-1.amazonaws.com"
    ELSE "https://bedrock-runtime.us-east-1.amazonaws.com"

\* Provider::base_url
base_url(p, r) ==
    CASE p = "openai"    -> "https://api.openai.com"
      [] p = "anthropic" -> "https://api.anthropic.com"
      [] p = "groq"      -> "https://api.groq.com/openai"
      [] p = "fireworks" -> "https://api.fireworks.ai/inference/v1"
      [] p = "together"  -> "https://api.together.xyz"
      [] p = "bedrock"   -> BedrockBaseUrl(bedrock_region(r))

\* Provider::transform_path
transform_path(p, r) ==
    CASE p = "anthropic" ->
           IF r.path = "/v1/chat/completions" THEN "/v1/messages" ELSE r.path
      [] p = "fireworks" ->
           IF r.path = "/v1/chat/completions" THEN "/chat/completions" ELSE r.path
      [] p = "bedrock" ->
           IF BodyIsJson(r.body) /\ BodyStream(r.body)
           THEN "/model/<model>/converse-stream"
           ELSE "/model/<model>/converse"
      [] OTHER -> r.path

\* Provider::prepare_request_body
prepare_request_body(p, r) ==
    IF p # "bedrock" THEN Ok(r.body)
    ELSE IF ~BodyIsJson(r.body) THEN Err("JsonError")
    ELSE IF ~BodyHasMessages(r.body) THEN Err("InvalidRequestFormat")
    ELSE Ok("converse")

\* chrono format "%Y%m%dT%H%M%SZ": the instant truncated to whole seconds
FormatAmzDate(t) == t \div TicksPerSecond

\* format!("{}.{}.amazonaws.com", service, region) with service "bedrock"
SigningHost(region) ==
    IF region = "eu-west-1"
    THEN "bedrock.eu-west-1.amazonaws.com"
    ELSE "bedrock.us-east-1.amazonaws.com"

\* BedrockProvider::get_signing_host:
\* format!("bedrock-runtime.{}.amazonaws.com", region) on the provider's region
get_signing_host(p, r) ==
    "bedrock-runtime." \o bedrock_region(r) \o ".amazonaws.com"

\* The host of a URL: what follows the scheme
HostOfUrl(u) ==
    CHOOSE h \in {"bedrock-runtime.eu-west-1.amazonaws.com",
                  "bedrock-runtime.us-east-1.amazonaws.com",
                  "bedrock.eu-west-1.amazonaws.com",
                  "bedrock.us-east-1.amazonaws.com"} : "https://" \o h = u

\* Option::None of a number (no x-amz-date header, no token count)
Absent == -1

\* An outbound header set: the string-valued headers, the x-amz-date header
\* and what the SigV4 authorization value was computed over.
Unsigned(hs) ==
    [headers |-> hs, amzDate |-> Absent,
     sig |-> [instant |-> Absent, key |-> None, region |-> None, host |-> None]]

\* signing::sign_aws_request at clock reading t: the header map it returns
sign_aws_request(creds, t) ==
    LET host == SigningHost(creds.region)
        date == FormatAmzDate(t)
    IN [headers |-> [EmptyHeaders EXCEPT
                       !["host"] = host,
                       !["content-type"] = "application/json",
                       !["x-amz-target"] = "bedrock-runtime.InvokeModel",
                       !["authorization"] = "AWS4-HMAC-SHA256"],
        amzDate |-> date,
        sig     |-> [instant |-> t, key |-> creds.key,
                     region |-> creds.region, host |-> host]]

\* ------------------------------------------------------------------------
\* Upstream responses and the responses built from them
\* ------------------------------------------------------------------------

ContentTypes ==
    {"application/json", "text/event-stream", "application/vnd.amazon.eventstream"}

\* Body kinds of an upstream response: a JSON object with an "id" string, a
\* JSON object without one, bytes that are no JSON, a body whose read fails.
UpstreamBodies == {"json_id", "json_noid", "not_json", "read_error"}

\* What the upstream can answer; at most one request-id header is present.
UpstreamResponses ==
    {u \in [status        : {200, 500},
            ctype         : ContentTypes,
            xRequestId    : {None, "", "up-1"},
            requestId     : {None, "rid-1"},
            amznRequestId : {None, "amz-1"},
            body          : UpstreamBodies] :
        Cardinality({h \in {u.xRequestId, u.requestId, u.amznRequestId} : h # None}) <= 1}

NoResponse ==
    [status |-> 0, ctype |-> None, xRequestId |-> None, requestId |-> None,
     amznRequestId |-> None, body |-> None, streaming |-> FALSE,
     errType |-> None]

\* ct.contains("text/event-stream")
IsEventStream(ctype) == ctype = "text/event-stream"

\* serde_json::from_slice of a response body succeeds
IsJson(b) == b \in {"json_id", "json_noid", "openai_json"}

\* json.get("id").and_then(as_str)
BodyId(b) == IF b = "json_id" THEN "body-id" ELSE None

\* format!("req_{}", Uuid::new_v4().simple())
GeneratedId == "req_uuid"

\* proxy::process_response: the response built from the upstream's answer
pipeline_process_response(u) ==
    IF IsEventStream(u.ctype)
    THEN Ok([status |-> u.status, ctype |-> "text/event-stream",
             xRequestId |-> u.xRequestId, requestId |-> u.requestId,
             amznRequestId |-> u.amznRequestId, body |-> u.body,
             streaming |-> TRUE, errType |-> None])
    ELSE IF u.body = "read_error" THEN Err("ReqwestError")
    ELSE Ok([status |-> u.status, ctype |-> u.ctype,
             xRequestId |-> u.xRequestId, requestId |-> u.requestId,
             amznRequestId |-> u.amznRequestId, body |-> u.body,
             streaming |-> FALSE, errType |-> None])

\* TogetherProvider::process_response
together_process_response(resp) ==
    IF IsEventStream(resp.ctype)
    THEN Ok(IF resp.xRequestId = None
            THEN [resp EXCEPT !.xRequestId = GeneratedId] ELSE resp)
    ELSE IF resp.xRequestId = None /\ IsJson(resp.body)
    THEN Ok([resp EXCEPT !.xRequestId =
               IF BodyId(resp.body) # None THEN BodyId(resp.body) ELSE GeneratedId])
    ELSE Ok(resp)

\* AnthropicProvider::process_response
anthropic_process_response(resp) ==
    LET fromHeader == IF resp.requestId # None
                      THEN [resp EXCEPT !.xRequestId = resp.requestId] ELSE resp
    IN IF IsEventStream(resp.ctype) THEN Ok(fromHeader)
       ELSE IF IsJson(resp.body)
       THEN Ok([fromHeader EXCEPT
                  !.xRequestId =
                     IF resp.requestId = None /\ BodyId(resp.body) # None
                     THEN BodyId(resp.body) ELSE fromHeader.xRequestId,
                  !.body = "openai_json"])
       ELSE Ok(fromHeader)

\* BedrockProvider::process_response
bedrock_process_response(resp) ==
    IF resp.ctype = "application/vnd.amazon.eventstream"
    THEN Ok([status |-> 200, ctype |-> "text/event-stream",
             xRequestId |-> resp.amznRequestId, requestId |-> None,
             amznRequestId |-> None, body |-> "sse", streaming |-> TRUE,
             errType |-> None])
    ELSE IF resp.body = "read_error" THEN Err("HttpError")
    ELSE IF ~IsJson(resp.body) THEN Err("JsonParseError")
    ELSE Ok([resp EXCEPT
               !.ctype = "application/json",
               !.xRequestId = IF resp.xRequestId # None THEN resp.xRequestId
                              ELSE resp.amznRequestId,
               !.body = "openai_json",
               !.streaming = FALSE])

\* Provider::process_response, dispatched on the provider (identity by default)
process_response(p, resp) ==
    CASE p = "together"  -> together_process_response(resp)
      [] p = "anthropic" -> anthropic_process_response(resp)
      [] p = "bedrock"   -> bedrock_process_response(resp)
      [] OTHER           -> Ok(resp)

\* The statuses of the Bedrock error kinds that src/error.rs does not list
ExtErrorStatus(e) ==
    CASE e = "JsonParseError"     -> 400
      [] e = "EventStreamError"   -> 500
      [] e = "HttpError"          -> 500
      [] e = "JsonSerializeError" -> 500

\* The variants of AppError that carry no data
UnitKinds ==
    {"InvalidMethod", "InvalidHeader", "UnsupportedProvider", "MissingApiKey",
     "InvalidRequestFormat", "UnsupportedModel"}

\* format!("{:?}", self) under #[derive(Debug)]: the variant's name, followed
\* for a variant that carries data by the Debug form of the data in brackets
DebugFmt(e) == IF e \in UnitKinds THEN e ELSE e \o "(..)"

\* AppError::into_response: the status of the kind and the body
\* {"error": {"message": .., "type": format!("{:?}", self)}}
into_response(e) ==
    [NoResponse EXCEPT
       !.status = IF e \in ErrorKinds THEN ErrorStatus(e) ELSE ExtErrorStatus(e),
       !.ctype = "application/json",
       !.body = "error_json",
       !.errType = DebugFmt(e)]

\* ------------------------------------------------------------------------
\* The proxy pipeline of one inbound request
\* ------------------------------------------------------------------------

NoUpstream ==
    [status |-> 0, ctype |-> None, xRequestId |-> None, requestId |-> None,
     amznRequestId |-> None, body |-> None]

PipeInit ==
    /\ pc = "idle"
    /\ req = NoRequest
    /\ provider = None
    /\ headers = Unsigned(EmptyHeaders)
    /\ path = None
    /\ body = None
    /\ url = None
    /\ sent = <<>>
    /\ upstream = NoUpstream
    /\ response = NoResponse
    /\ error = None
    /\ client = NoResponse

\* A mutant of Fail: the error is noted and the pipeline goes on to the send
FailAndSend(e) == pc' = "send" /\ error' = e

\* The `?` operator: the pipeline returns the error
Fail(e) == pc' = "handler_err" /\ error' = e

\* handlers::proxy_request is entered with a request
Receive ==
    /\ pc = "idle"
    /\ \E r \in Requests : req' = r
    /\ pc' = "create_provider"
    /\ UNCHANGED <<provider, headers, path, body, url, sent, upstream,
                   response, error, client>>
    /\ UNCHANGED <<teeVars, regVars, slotVars, esVars, bedVars, trackVars, anthVars, mwVars, listVars>>

\* let provider = create_provider(provider_name)?
CreateProvider ==
    /\ pc = "create_provider"
    /\ LET res == create_provider(HeaderProvider(req))
       IN IF res.ok
          THEN provider' = res.val /\ pc' = "before_request" /\ error' = error
          ELSE Fail(res.err) /\ provider' = provider
    /\ UNCHANGED <<req, headers, path, body, url, sent, upstream, response, client>>
    /\ UNCHANGED <<teeVars, regVars, slotVars, esVars, bedVars, trackVars, anthVars, mwVars, listVars>>

\* provider.before_request(headers, &body_bytes).await?  (never fails)
BeforeRequest ==
    /\ pc = "before_request"
    /\ pc' = "process_headers"
    /\ UNCHANGED <<req, provider, headers, path, body, url, sent, upstream,
                   response, error, client>>
    /\ UNCHANGED <<teeVars, regVars, slotVars, esVars, bedVars, trackVars, anthVars, mwVars, listVars>>

\* let mut headers = provider.process_headers(original_request.headers())?
ProcessHeaders ==
    /\ pc = "process_headers"
    /\ LET res == process_headers(provider, req)
       IN IF res.ok
          THEN headers' = Unsigned(res.val) /\ pc' = "transform_path" /\ error' = error
          ELSE Fail(res.err) /\ headers' = headers
    /\ UNCHANGED <<req, provider, path, body, url, sent, upstream, response, client>>
    /\ UNCHANGED <<teeVars, regVars, slotVars, esVars, bedVars, trackVars, anthVars, mwVars, listVars>>

\* let modified_path = provider.transform_path(path)
TransformPath ==
    /\ pc = "transform_path"
    /\ path' = transform_path(provider, req)
    /\ pc' = "prepare_request_body"
    /\ UNCHANGED <<req, provider, headers, body, url, sent, upstream, response,
                   error, client>>
    /\ UNCHANGED <<teeVars, regVars, slotVars, esVars, bedVars, trackVars, anthVars, mwVars, listVars>>

\* let prepared_body = provider.prepare_request_body(body_bytes).await?
\* and the URL built from base_url, path and query
PrepareRequestBody ==
    /\ pc = "prepare_request_body"
    /\ LET res == prepare_request_body(provider, req)
       IN IF res.ok
          THEN /\ body' = res.val
               /\ url' = <<base_url(provider, req), path>>
               /\ pc' = "sign"
               /\ error' = error
          ELSE Fail(res.err) /\ body' = body /\ url' = url
    /\ UNCHANGED <<req, provider, headers, path, sent, upstream, response, client>>
    /\ UNCHANGED <<teeVars, regVars, slotVars, esVars, bedVars, trackVars, anthVars, mwVars, listVars>>

\* The signing branch: sign when the provider requires it and hands out
\* credentials, pass the headers through otherwise.
Sign ==
    /\ pc = "sign"
    /\ LET creds == get_signing_credentials(provider, headers.headers, req)
       IN IF requires_signing(provider) /\ creds.some
          THEN \E t \in 0..MaxTick : headers' = sign_aws_request(creds, t)
          ELSE headers' = headers
    /\ pc' = "send"
    /\ UNCHANGED <<req, provider, path, body, url, sent, upstream, response,
                   error, client>>
    /\ UNCHANGED <<teeVars, regVars, slotVars, esVars, bedVars, trackVars, anthVars, mwVars, listVars>>

\* sign_aws_request(...).await? returns AwsSigningError
SignFails ==
    /\ pc = "sign"
    /\ requires_signing(provider)
    /\ get_signing_credentials(provider, headers.headers, req).some
    /\ Fail("AwsSigningError")
    /\ UNCHANGED <<req, provider, headers, path, body, url, sent, upstream,
                   response, client>>
    /\ UNCHANGED <<teeVars, regVars, slotVars, esVars, bedVars, trackVars, anthVars, mwVars, listVars>>

\* A mutant of Send's successor: a failed send is sent again
RetryOnFailure == pc' = "send" /\ error' = error

\* What follows a failed send: the error is returned
OnSendFailure == Fail("ReqwestError")

\* client.request(method, url).headers(..).body(..).send()
Send ==
    /\ pc = "send"
    /\ sent' = Append(sent, [provider |-> provider, url |-> url,
                             headers |-> headers, body |-> body])
    /\ pc' = "await_upstream"
    /\ UNCHANGED <<req, provider, headers, path, body, url, upstream, response,
                   error, client>>
    /\ UNCHANGED <<teeVars, regVars, slotVars, esVars, bedVars, trackVars, anthVars, mwVars, listVars>>

\* .send().await? fails: no answer from the upstream
UpstreamFails ==
    /\ pc = "await_upstream"
    /\ OnSendFailure
    /\ UNCHANGED <<req, provider, headers, path, body, url, sent, upstream,
                   response, client>>
    /\ UNCHANGED <<teeVars, regVars, slotVars, esVars, bedVars, trackVars, anthVars, mwVars, listVars>>

\* .send().await returns the upstream's answer
UpstreamResponds ==
    /\ pc = "await_upstream"
    /\ \E u \in UpstreamResponses : upstream' = u
    /\ pc' = "pipeline_response"
    /\ UNCHANGED <<req, provider, headers, path, body, url, sent, response,
                   error, client>>
    /\ UNCHANGED <<teeVars, regVars, slotVars, esVars, bedVars, trackVars, anthVars, mwVars, listVars>>

\* process_response(response, config).await
PipelineResponse ==
    /\ pc = "pipeline_response"
    /\ LET res == pipeline_process_response(upstream)
       IN IF res.ok
          THEN response' = res.val /\ pc' = "provider_response" /\ error' = error
          ELSE Fail(res.err) /\ response' = response
    /\ UNCHANGED <<req, provider, headers, path, body, url, sent, upstream, client>>
    /\ UNCHANGED <<teeVars, regVars, slotVars, esVars, bedVars, trackVars, anthVars, mwVars, listVars>>

\* provider.process_response(response).await
ProviderResponse ==
    /\ pc = "provider_response"
    /\ LET res == process_response(provider, response)
       IN IF res.ok
          THEN response' = res.val /\ pc' = "handler_ok" /\ error' = error
          ELSE Fail(res.err) /\ response' = response
    /\ UNCHANGED <<req, provider, headers, path, body, url, sent, upstream, client>>
    /\ UNCHANGED <<teeVars, regVars, slotVars, esVars, bedVars, trackVars, anthVars, mwVars, listVars>>

\* handlers::proxy_request, Ok(response) arm, and the middleware returning
\* the response's parts to the client
HandlerOk ==
    /\ pc = "handler_ok"
    /\ client' = response
    /\ pc' = "done"
    /\ UNCHANGED <<req, provider, headers, path, body, url, sent, upstream,
                   response, error>>
    /\ UNCHANGED <<teeVars, regVars, slotVars, esVars, bedVars, trackVars, anthVars, mwVars, listVars>>

\* handlers::proxy_request, Err(e) arm: e.into_response()
HandlerErr ==
    /\ pc = "handler_err"
    /\ response' = into_response(error)
    /\ client' = into_response(error)
    /\ pc' = "done"
    /\ UNCHANGED <<req, provider, headers, path, body, url, sent, upstream, error>>
    /\ UNCHANGED <<teeVars, regVars, slotVars, esVars, bedVars, trackVars, anthVars, mwVars, listVars>>

\* ------------------------------------------------------------------------
\* Metrics extraction (telemetry/provider_metrics.rs)
\* ------------------------------------------------------------------------

\* The JSON payloads of the catalogue, by the members the extractors read:
\* a top-level "usage" with its OpenAI and Anthropic token fields, an
\* "x_groq" object with a "usage" (xgroq; its counts are in the same fields),
\* one of "choices"/"completion"/"delta"/"finish_reason" (llm), a gpt model or
\* the object "chat.completion.chunk" (openaiChunk), and a "model" that names
\* neither llama nor gemma (otherModel). startInput is the input_tokens a
\* message_start event carries under "message", where no extractor looks.
Payload(name) ==
    LET none == [hasUsage |-> FALSE, prompt |-> Absent, completion |-> Absent,
                 total |-> Absent, input |-> Absent, output |-> Absent,
                 llm |-> FALSE, openaiChunk |-> FALSE, xgroq |-> FALSE,
                 otherModel |-> FALSE, startInput |-> Absent]
    IN CASE name = "delta" ->
              [none EXCEPT !.llm = TRUE, !.openaiChunk = TRUE, !.otherModel = TRUE]
         [] name \in {"usage", "openai_usage"} ->
              [none EXCEPT !.hasUsage = TRUE, !.prompt = 1, !.completion = 2,
                           !.total = 3, !.llm = TRUE, !.openaiChunk = TRUE,
                           !.otherModel = TRUE]
         [] name = "openai_odd_usage" ->
              [none EXCEPT !.hasUsage = TRUE, !.prompt = 1, !.completion = 2,
                           !.total = 4, !.llm = TRUE, !.openaiChunk = TRUE,
                           !.otherModel = TRUE]
         [] name = "groq_usage" ->
              [none EXCEPT !.xgroq = TRUE, !.prompt = 1, !.completion = 2,
                           !.total = 3, !.llm = TRUE, !.openaiChunk = TRUE]
         [] name = "msg_start" ->
              [none EXCEPT !.startInput = 1]
         [] name = "msg_delta" ->
              [none EXCEPT !.hasUsage = TRUE, !.output = 2, !.llm = TRUE]
         [] name = "anthropic_usage" ->
              [none EXCEPT !.hasUsage = TRUE, !.input = 1, !.output = 2]
         [] OTHER -> none

NoMetrics == [input |-> Absent, output |-> Absent, total |-> Absent]

\* Option::unwrap_or(0)
UnwrapOr0(n) == IF n = Absent THEN 0 ELSE n

\* get_metrics_extractor: matched on the header value as sent
get_metrics_extractor(p) ==
    IF p \in {"anthropic", "bedrock", "groq"} THEN p ELSE "openai"

\* The prompt_tokens, completion_tokens and total_tokens of a usage object
UsageCounts(pl) == [input |-> pl.prompt, output |-> pl.completion, total |-> pl.total]

\* GroqMetricsExtractor::extract_metrics: x_groq.usage first, the root usage
\* when that gave no total
groq_extract_metrics(pl) ==
    LET fromX == IF pl.xgroq THEN UsageCounts(pl) ELSE NoMetrics
    IN IF fromX.total = Absent /\ pl.hasUsage THEN UsageCounts(pl) ELSE fromX

\* MetricsExtractor::extract_metrics of the OpenAI, Anthropic and Groq
\* extractors
extract_metrics(ext, pl) ==
    IF ext = "groq" THEN groq_extract_metrics(pl)
    ELSE IF ~pl.hasUsage THEN NoMetrics
    ELSE IF ext = "anthropic"
    THEN [input |-> pl.input, output |-> pl.output,
          total |-> UnwrapOr0(pl.input) + UnwrapOr0(pl.output)]
    ELSE UsageCounts(pl)

Some(m) == [some |-> TRUE, metrics |-> m]
Nothing == [some |-> FALSE, metrics |-> NoMetrics]

\* is_groq_response: the model (default "llama") names llama or gemma, or
\* the object is "chat.completion.chunk"
is_groq_response(pl) == ~pl.otherModel \/ pl.openaiChunk

\* MetricsExtractor::try_extract_provider_specific_streaming_metrics
try_extract_provider_specific_streaming_metrics(ext, pl) ==
    IF ext = "anthropic" THEN Nothing
    ELSE IF ext = "groq"
    THEN IF pl.xgroq THEN Some(UsageCounts(pl))
         ELSE IF is_groq_response(pl) THEN Some(NoMetrics)
         ELSE Nothing
    ELSE IF pl.hasUsage THEN Some(extract_metrics(ext, pl))
    ELSE IF pl.openaiChunk THEN Some(NoMetrics)
    ELSE Nothing

\* MetricsExtractor::try_extract_common_streaming_metrics
try_extract_common_streaming_metrics(ext, pl) ==
    IF pl.hasUsage THEN Some(extract_metrics(ext, pl))
    ELSE IF pl.llm THEN Some(NoMetrics)
    ELSE Nothing

\* MetricsExtractor::extract_streaming_metrics
extract_streaming_metrics(ext, pl) ==
    LET specific == try_extract_provider_specific_streaming_metrics(ext, pl)
    IN IF specific.some THEN specific
       ELSE try_extract_common_streaming_metrics(ext, pl)

\* ------------------------------------------------------------------------
\* The telemetry middleware: unary responses and the streaming tee
\* ------------------------------------------------------------------------

\* Most chunks of one response stream
MaxChunks == 3

\* The capacity of the channel between the tee task and the client body
\* (mpsc::channel(100) in the source, scaled down)
ChannelCap == 2

\* The x-provider values the middleware sees
TeeProviders == {"openai", "OpenAI", "anthropic", "groq"}

\* The chunks an upstream stream is made of: bytes that are no UTF-8, a chunk
\* that is one bare JSON object, and SSE chunks of one "data: " line each.
Chunks == {"bin", "json", "delta", "usage", "groq_usage", "msg_start", "msg_delta"}

\* The bodies of a unary response
UnaryBodies ==
    {"openai_usage", "openai_odd_usage", "groq_usage", "anthropic_usage",
     "json_nousage", "not_json"}

\* bytes.len()
ChunkLen(c) ==
    CASE c = "bin" -> 2 [] c = "json" -> 7 [] c = "delta" -> 9 [] c = "usage" -> 12
      [] c = "msg_start" -> 10 [] c = "msg_delta" -> 11 [] c = "groq_usage" -> 13
      [] c = "openai_usage" -> 14 [] c = "openai_odd_usage" -> 15
      [] c = "anthropic_usage" -> 16 [] c = "json_nousage" -> 6
      [] c = "not_json" -> 5

\* String::from_utf8(bytes.to_vec()) is Ok
IsUtf8(c) == c # "bin"

\* serde_json::from_str of the whole chunk is Ok (a non-empty object)
WholeJson(c) == c = "json"

\* The chunk has a line "data: <json>"
DataJson(c) == c \in {"delta", "usage", "groq_usage", "msg_start", "msg_delta"}

NoAcc ==
    [size |-> 0, text |-> 0, chunks |-> 0, found |-> FALSE, metrics |-> NoMetrics]

\* The loop body before the forward: response_size, accumulated_text,
\* streamed_chunks, accumulated_metrics and final_metrics_found after chunk c
Accumulate(a, c, p) ==
    LET m == extract_streaming_metrics(get_metrics_extractor(p), Payload(c))
    IN [size    |-> a.size + ChunkLen(c),
        text    |-> IF IsUtf8(c) THEN a.text + ChunkLen(c) ELSE a.text,
        chunks  |-> IF IsUtf8(c) /\ (WholeJson(c) \/ DataJson(c))
                    THEN a.chunks + 1 ELSE a.chunks,
        found   |-> a.found \/ (IsUtf8(c) /\ ~WholeJson(c) /\ DataJson(c) /\ m.some),
        metrics |-> IF IsUtf8(c) /\ ~WholeJson(c) /\ DataJson(c) /\ m.some
                    THEN m.metrics ELSE a.metrics]

\* (len as f64 / 4.0).ceil() as u32
EstimateTokens(len) == (len + 3) \div 4

\* After the loop: the partial metrics made up for "openai" and "groq"
Synthesize(a, p) ==
    IF ~a.found /\ p \in {"openai", "groq"} /\ a.chunks > 0
    THEN [a EXCEPT !.found = TRUE,
                   !.metrics = [input |-> Absent,
                                output |-> IF a.text > 0 THEN EstimateTokens(a.text)
                                           ELSE Absent,
                                total |-> Absent]]
    ELSE a

\* The RequestMetrics record of a streaming response
StreamRecord(a, p) ==
    [provider |-> p, response_size |-> a.size, input_tokens |-> a.metrics.input,
     output_tokens |-> a.metrics.output, total_tokens |-> a.metrics.total,
     is_streaming |-> TRUE]

\* A mutant of UnaryRecord: the size is taken before the body is read
UnaryRecordUnread(b, p) ==
    [provider |-> p, response_size |-> 0, input_tokens |-> Absent,
     output_tokens |-> Absent, total_tokens |-> Absent, is_streaming |-> FALSE]

\* The RequestMetrics record of a unary response
UnaryRecord(b, p) ==
    LET m == IF b = "not_json" THEN NoMetrics
             ELSE extract_metrics(get_metrics_extractor(p), Payload(b))
    IN [provider |-> p, response_size |-> ChunkLen(b), input_tokens |-> m.input,
        output_tokens |-> m.output, total_tokens |-> m.total,
        is_streaming |-> FALSE]

TeeIdle ==
    /\ teePc = "idle"
    /\ produced = <<>>
    /\ held = None
    /\ channel = <<>>
    /\ forwarded = <<>>
    /\ delivered = <<>>
    /\ rxAlive = TRUE
    /\ sendFailed = FALSE
    /\ clientEnded = FALSE
    /\ acc = NoAcc
    /\ records = <<>>
    /\ exportStarted = FALSE

TeeInit == tProvider \in TeeProviders /\ TeeIdle

\* A mutant of ChannelSend: the chunk goes in at the front of the channel
ChannelSendFront(ch, c) == <<c>> \o ch

\* tx.send(Ok(bytes)): the chunk joins the channel at the back
ChannelSend(ch, c) == Append(ch, c)

\* `break` on a failed tx.send: the task goes on to the code after the loop
OnSendError == "finish"

\* A mutant of LoopExited: the record is handed over as soon as metrics are
\* found, with a chunk still to forward
LoopExitedOrFound == teePc = "finish" \/ (teePc = "send" /\ acc.found)

\* The code after the loop runs once the loop is left
LoopExited == teePc = "finish"

\* handle_regular_response: the body is read, the record handed to the
\* registry, the response returned
HandleRegularResponse ==
    /\ teePc = "idle"
    /\ \E b \in UnaryBodies :
          /\ records' = Append(records, UnaryRecord(b, tProvider))
          /\ produced' = <<b>>
          /\ delivered' = <<b>>
    /\ teePc' = "done"
    /\ clientEnded' = TRUE
    /\ UNCHANGED <<tProvider, held, channel, forwarded, rxAlive, sendFailed, acc,
                   exportStarted>>
    /\ UNCHANGED <<pipeVars, regVars, slotVars, esVars, bedVars, trackVars, anthVars, mwVars, listVars>>

\* handle_streaming_response: the task is spawned and the response returned
\* with the receiver as its body
HandleStreamingResponse ==
    /\ teePc = "idle"
    /\ teePc' = "recv"
    /\ UNCHANGED <<tProvider, produced, held, channel, forwarded, delivered,
                   rxAlive, sendFailed, clientEnded, acc, records, exportStarted>>
    /\ UNCHANGED <<pipeVars, regVars, slotVars, esVars, bedVars, trackVars, anthVars, mwVars, listVars>>

\* stream.next().await yields Ok(bytes): the chunk is measured and parsed
TeeRecv ==
    /\ teePc = "recv"
    /\ Len(produced) < MaxChunks
    /\ \E c \in Chunks :
          /\ produced' = Append(produced, c)
          /\ held' = c
          /\ acc' = Accumulate(acc, c, tProvider)
    /\ teePc' = "send"
    /\ UNCHANGED <<tProvider, channel, forwarded, delivered, rxAlive, sendFailed,
                   clientEnded, records, exportStarted>>
    /\ UNCHANGED <<pipeVars, regVars, slotVars, esVars, bedVars, trackVars, anthVars, mwVars, listVars>>

\* tx.send(Ok(bytes)).await returns Ok: the chunk is in the channel
TeeSend ==
    /\ teePc = "send"
    /\ rxAlive
    /\ Len(channel) < ChannelCap
    /\ channel' = ChannelSend(channel, held)
    /\ forwarded' = Append(forwarded, held)
    /\ held' = None
    /\ teePc' = "recv"
    /\ UNCHANGED <<tProvider, produced, delivered, rxAlive, sendFailed,
                   clientEnded, acc, records, exportStarted>>
    /\ UNCHANGED <<pipeVars, regVars, slotVars, esVars, bedVars, trackVars, anthVars, mwVars, listVars>>

\* tx.send(Ok(bytes)).await returns Err: the receiver is gone
TeeSendFails ==
    /\ teePc = "send"
    /\ ~rxAlive
    /\ sendFailed' = TRUE
    /\ teePc' = OnSendError
    /\ UNCHANGED <<tProvider, produced, held, channel, forwarded, delivered,
                   rxAlive, clientEnded, acc, records, exportStarted>>
    /\ UNCHANGED <<pipeVars, regVars, slotVars, esVars, bedVars, trackVars, anthVars, mwVars, listVars>>

\* stream.next().await yields None, or an Err chunk: the loop is left
UpstreamEnds ==
    /\ teePc = "recv"
    /\ teePc' = "finish"
    /\ UNCHANGED <<tProvider, produced, held, channel, forwarded, delivered,
                   rxAlive, sendFailed, clientEnded, acc, records, exportStarted>>
    /\ UNCHANGED <<pipeVars, regVars, slotVars, esVars, bedVars, trackVars, anthVars, mwVars, listVars>>

\* The code after the loop: partial metrics for openai and groq, the record
\* handed to the registry if metrics were found, the task's end (tx dropped)
TeeFinish ==
    /\ LoopExited
    /\ LET a == Synthesize(acc, tProvider)
       IN /\ acc' = a
          /\ records' = IF a.found THEN Append(records, StreamRecord(a, tProvider))
                        ELSE records
    /\ teePc' = "done"
    /\ UNCHANGED <<tProvider, produced, held, channel, forwarded, delivered,
                   rxAlive, sendFailed, clientEnded, exportStarted>>
    /\ UNCHANGED <<pipeVars, regVars, slotVars, esVars, bedVars, trackVars, anthVars, mwVars, listVars>>

\* The client reads the next chunk of the response body
ClientRecv ==
    /\ rxAlive
    /\ channel # <<>>
    /\ delivered' = Append(delivered, Head(channel))
    /\ channel' = Tail(channel)
    /\ UNCHANGED <<tProvider, teePc, produced, held, forwarded, rxAlive,
                   sendFailed, clientEnded, acc, records, exportStarted>>
    /\ UNCHANGED <<pipeVars, regVars, slotVars, esVars, bedVars, trackVars, anthVars, mwVars, listVars>>

\* The client reads the end of the body: the channel is empty and closed
ClientEnd ==
    /\ rxAlive
    /\ ~clientEnded
    /\ channel = <<>>
    /\ teePc = "done"
    /\ clientEnded' = TRUE
    /\ UNCHANGED <<tProvider, teePc, produced, held, channel, forwarded,
                   delivered, rxAlive, sendFailed, acc, records, exportStarted>>
    /\ UNCHANGED <<pipeVars, regVars, slotVars, esVars, bedVars, trackVars, anthVars, mwVars, listVars>>

\* The client goes away in mid-stream: the body, and with it the receiver and
\* the chunks in the channel, is dropped
ClientDisconnect ==
    /\ rxAlive
    /\ teePc \in {"recv", "send", "finish"}
    /\ rxAlive' = FALSE
    /\ channel' = <<>>
    /\ UNCHANGED <<tProvider, teePc, produced, held, forwarded, delivered,
                   sendFailed, clientEnded, acc, records, exportStarted>>
    /\ UNCHANGED <<pipeVars, regVars, slotVars, esVars, bedVars, trackVars, anthVars, mwVars, listVars>>

\* A task spawned by record_metrics begins its export
StartExport ==
    /\ records # <<>>
    /\ ~exportStarted
    /\ exportStarted' = TRUE
    /\ UNCHANGED <<tProvider, teePc, produced, held, channel, forwarded,
                   delivered, rxAlive, sendFailed, clientEnded, acc, records>>
    /\ UNCHANGED <<pipeVars, regVars, slotVars, esVars, bedVars, trackVars, anthVars, mwVars, listVars>>

\* ------------------------------------------------------------------------
\* The metrics registry (telemetry/metrics.rs)
\* ------------------------------------------------------------------------

\* Most record_metrics calls of one run
MaxRecords == 2

ExporterNames == {"console", "elasticsearch"}

RegInit ==
    /\ regPhase = "startup"
    /\ exporters = <<>>
    /\ readers = 0
    /\ callPc = "idle"
    /\ callNames = <<>>
    /\ inResp = <<>>
    /\ outResp = <<>>
    /\ tasks = [k \in 1..MaxRecords |-> [n \in ExporterNames |-> "none"]]

Range(seq) == {seq[i] : i \in 1..Len(seq)}

\* A mutant of Awaited: record_metrics awaits every export it started
AwaitedAll(names) == Range(names)

\* The exports record_metrics awaits before it returns: none, the JoinHandle
\* of tokio::spawn is dropped
Awaited(names) == {}

Finished(st) == st \in {"ok", "err"}

\* main: register_exporter takes the write lock and pushes the exporter;
\* the console exporter is registered before the Elasticsearch one
RegisterExporter ==
    /\ regPhase = "startup"
    /\ readers = 0
    /\ \E n \in ExporterNames :
          /\ n \notin Range(exporters)
          /\ n = "console" => "elasticsearch" \notin Range(exporters)
          /\ exporters' = Append(exporters, n)
    /\ UNCHANGED <<regPhase, readers, callPc, callNames, inResp, outResp, tasks>>
    /\ UNCHANGED <<pipeVars, teeVars, slotVars, esVars, bedVars, trackVars, anthVars, mwVars, listVars>>

\* main: axum::serve starts, requests come in from here on
StartServing ==
    /\ regPhase = "startup"
    /\ regPhase' = "serving"
    /\ UNCHANGED <<exporters, readers, callPc, callNames, inResp, outResp, tasks>>
    /\ UNCHANGED <<pipeVars, teeVars, slotVars, esVars, bedVars, trackVars, anthVars, mwVars, listVars>>

\* record_metrics is entered by a caller holding a response: the names are
\* collected under a read guard that is dropped at the end of the block
RecordMetricsBegin ==
    /\ regPhase = "serving"
    /\ callPc = "idle"
    /\ Len(inResp) < MaxRecords
    /\ \E st \in {200, 500} : inResp' = Append(inResp, st)
    /\ callNames' = exporters
    /\ callPc' = "spawning"
    /\ UNCHANGED <<regPhase, exporters, readers, outResp, tasks>>
    /\ UNCHANGED <<pipeVars, teeVars, slotVars, esVars, bedVars, trackVars, anthVars, mwVars, listVars>>

\* for name in exporter_names { tokio::spawn(..) }: one turn of the loop
RecordMetricsSpawn ==
    /\ callPc = "spawning"
    /\ callNames # <<>>
    /\ tasks' = [tasks EXCEPT ![Len(inResp)][Head(callNames)] = "spawned"]
    /\ callNames' = Tail(callNames)
    /\ UNCHANGED <<regPhase, exporters, readers, callPc, inResp, outResp>>
    /\ UNCHANGED <<pipeVars, teeVars, slotVars, esVars, bedVars, trackVars, anthVars, mwVars, listVars>>

\* record_metrics returns and its caller returns the response it holds
RecordMetricsReturn ==
    /\ callPc = "spawning"
    /\ callNames = <<>>
    /\ \A n \in Awaited(exporters) : Finished(tasks[Len(inResp)][n])
    /\ outResp' = Append(outResp, inResp[Len(inResp)])
    /\ callPc' = "idle"
    /\ UNCHANGED <<regPhase, exporters, readers, callNames, inResp, tasks>>
    /\ UNCHANGED <<pipeVars, teeVars, slotVars, esVars, bedVars, trackVars, anthVars, mwVars, listVars>>

\* A spawned task takes its read guard, finds its exporter and calls
\* export_metrics
ExportBegin ==
    /\ \E k \in 1..MaxRecords, n \in ExporterNames :
          /\ tasks[k][n] = "spawned"
          /\ n \in Range(exporters)
          /\ tasks' = [tasks EXCEPT ![k][n] = "exporting"]
    /\ readers' = readers + 1
    /\ UNCHANGED <<regPhase, exporters, callPc, callNames, inResp, outResp>>
    /\ UNCHANGED <<pipeVars, teeVars, slotVars, esVars, bedVars, trackVars, anthVars, mwVars, listVars>>

\* export_metrics returns Ok: the task ends and drops its guard
ExportOk ==
    /\ \E k \in 1..MaxRecords, n \in ExporterNames :
          /\ tasks[k][n] = "exporting"
          /\ tasks' = [tasks EXCEPT ![k][n] = "ok"]
    /\ readers' = readers - 1
    /\ UNCHANGED <<regPhase, exporters, callPc, callNames, inResp, outResp>>
    /\ UNCHANGED <<pipeVars, teeVars, slotVars, esVars, bedVars, trackVars, anthVars, mwVars, listVars>>

\* export_metrics returns Err: the error is logged, the task ends
ExportErr ==
    /\ \E k \in 1..MaxRecords, n \in ExporterNames :
          /\ tasks[k][n] = "exporting"
          /\ tasks' = [tasks EXCEPT ![k][n] = "err"]
    /\ readers' = readers - 1
    /\ UNCHANGED <<regPhase, exporters, callPc, callNames, inResp, outResp>>
    /\ UNCHANGED <<pipeVars, teeVars, slotVars, esVars, bedVars, trackVars, anthVars, mwVars, listVars>>

\* ------------------------------------------------------------------------
\* The input-token slot of providers/anthropic.rs
\* ------------------------------------------------------------------------

\* The worker threads of the runtime, each with its own thread-local slot
MaxThreads == 2

\* The Anthropic streams processed concurrently
MaxStreams == 2

Threads == 1..MaxThreads
Streams == 1..MaxStreams

\* usage.input_tokens of a message_start event (Absent: no usage in it)
StartTokens == {Absent, 1, 3}

\* usage.output_tokens of a message_delta event
DeltaOutputs == {2, 5}

SlotInit ==
    /\ slot = [th \in Threads |-> Absent]
    /\ sStart \in [Streams -> StartTokens]
    /\ sPos = [s \in Streams |-> 0]
    /\ sFinal = [s \in Streams |-> NoMetrics]

\* The message_start arm: the slot after the event
StoreInputTokens(old, input) == IF input # Absent THEN input ELSE old

\* The message_delta arm: the metrics returned, given the slot's value
DeltaMetrics(stored, output) ==
    [input |-> stored, output |-> output,
     total |-> IF stored # Absent THEN stored + output ELSE output]

\* try_extract_provider_specific_streaming_metrics on a message_start event,
\* run on thread th
ExtractMessageStart ==
    /\ \E s \in Streams, th \in Threads :
          /\ sPos[s] = 0
          /\ slot' = [slot EXCEPT ![th] = StoreInputTokens(slot[th], sStart[s])]
          /\ sPos' = [sPos EXCEPT ![s] = 1]
    /\ UNCHANGED <<sStart, sFinal>>
    /\ UNCHANGED <<pipeVars, teeVars, regVars, esVars, bedVars, trackVars, anthVars, mwVars, listVars>>

\* try_extract_provider_specific_streaming_metrics on a message_delta event
\* with usage, run on thread th
ExtractMessageDelta ==
    /\ \E s \in Streams, th \in Threads, out \in DeltaOutputs :
          /\ sPos[s] = 1
          /\ sFinal' = [sFinal EXCEPT ![s] = DeltaMetrics(slot[th], out)]
          /\ sPos' = [sPos EXCEPT ![s] = 2]
    /\ UNCHANGED <<slot, sStart>>
    /\ UNCHANGED <<pipeVars, teeVars, regVars, esVars, bedVars, trackVars, anthVars, mwVars, listVars>>

\* ------------------------------------------------------------------------
\* The Elasticsearch exporter (telemetry/plugins/elasticsearch.rs)
\* ------------------------------------------------------------------------

\* ExponentialBackoff::from_millis(100).map(jitter).take(3): the strategy
\* yields three delays
MaxRetries == 3

\* What one index attempt can end in: a response with a status, an error of
\* the transport, the 10 s timeout
IndexOutcomes == {"201", "400", "404", "503", "send_error", "timeout"}

\* response.status_code().is_success()
is_success(o) == o = "201"

\* status.as_u16() >= 500 && status.as_u16() < 600
is_server_error(o) == o = "503"

\* A response with a 4xx status
is_client_error(o) == o \in {"400", "404"}

\* The requests a record is made for: GET /health, answered 200 by
\* handlers::health_check, and proxied requests with their statuses
RecordedRequests ==
    {[path |-> "/health", status |-> 200]}
    \cup [path : {"/v1/chat/completions", "/v1/health"}, status : {200, 401, 502}]

NoRecord == [path |-> None, status |-> 0]

EsRest ==
    /\ esPc = "idle"
    /\ esRecord = NoRecord
    /\ esLeft = 0
    /\ esOutcomes = <<>>
    /\ esResult = None
    /\ esLogged = 0

\* A mutant of SkipsExport: health checks are exported like any record
SkipsExportNever(rec) == FALSE

\* if metrics.path == "/health" { return Ok(()) }
SkipsExport(rec) == rec.path = "/health"

\* Retry::spawn calls the action again after every Err while the strategy
\* yields a delay; the closure's two Err arms for a status differ in their
\* message only
RetriesAfter(o) == ~is_success(o)

\* The middleware's record reaches the task the registry spawned for the
\* exporter: exporter.export_metrics(metrics_clone) is called
EsExportMetrics ==
    /\ esPc = "idle"
    /\ \E rec \in RecordedRequests : esRecord' = rec
    /\ esPc' = "export"
    /\ UNCHANGED <<esLeft, esOutcomes, esResult, esLogged>>
    /\ UNCHANGED <<pipeVars, teeVars, regVars, slotVars, bedVars, trackVars, anthVars, mwVars, listVars>>

\* export_metrics and export: a health check returns Ok(()) at once
EsSkip ==
    /\ esPc = "export"
    /\ SkipsExport(esRecord)
    /\ esResult' = "ok"
    /\ esPc' = "done"
    /\ UNCHANGED <<esRecord, esLeft, esOutcomes, esLogged>>
    /\ UNCHANGED <<pipeVars, teeVars, regVars, slotVars, bedVars, trackVars, anthVars, mwVars, listVars>>

\* export: the document is built and send_metrics sets up its strategy
EsSendMetrics ==
    /\ esPc = "export"
    /\ ~SkipsExport(esRecord)
    /\ esLeft' = MaxRetries
    /\ esPc' = "attempt"
    /\ UNCHANGED <<esRecord, esOutcomes, esResult, esLogged>>
    /\ UNCHANGED <<pipeVars, teeVars, regVars, slotVars, bedVars, trackVars, anthVars, mwVars, listVars>>

\* One run of the closure: client.index(..).body(document).send() under the
\* timeout, and what Retry does with its result
EsAttempt ==
    /\ esPc = "attempt"
    /\ \E o \in IndexOutcomes :
          /\ esOutcomes' = Append(esOutcomes, o)
          /\ IF is_success(o)
             THEN esPc' = "sent" /\ esLeft' = esLeft
             ELSE IF RetriesAfter(o) /\ esLeft > 0
             THEN esPc' = "attempt" /\ esLeft' = esLeft - 1
             ELSE esPc' = "failed" /\ esLeft' = esLeft
    /\ UNCHANGED <<esRecord, esResult, esLogged>>
    /\ UNCHANGED <<pipeVars, teeVars, regVars, slotVars, bedVars, trackVars, anthVars, mwVars, listVars>>

\* send_metrics and export return Ok(())
EsExported ==
    /\ esPc = "sent"
    /\ esResult' = "ok"
    /\ esPc' = "done"
    /\ UNCHANGED <<esRecord, esLeft, esOutcomes, esLogged>>
    /\ UNCHANGED <<pipeVars, teeVars, regVars, slotVars, bedVars, trackVars, anthVars, mwVars, listVars>>

\* send_metrics and export return the error; the registry's task logs it
EsFailed ==
    /\ esPc = "failed"
    /\ esResult' = "err"
    /\ esLogged' = esLogged + 1
    /\ esPc' = "done"
    /\ UNCHANGED <<esRecord, esLeft, esOutcomes>>
    /\ UNCHANGED <<pipeVars, teeVars, regVars, slotVars, bedVars, trackVars, anthVars, mwVars, listVars>>

\* ------------------------------------------------------------------------
\* Bedrock: the provider instance of a request, and the translation of the
\* upstream event stream
\* ------------------------------------------------------------------------

\* Upstream chunks per Bedrock event stream
MaxBedrockChunks == 2

\* The Bedrock requests in flight at the same time
BedrockRequestIds == {"r1", "r2"}

DEFAULT_MODEL == "amazon.titan-text-premier-v1:0"

\* What a Bedrock request carries: whether its body is JSON, the body's
\* "model" and "stream" fields and the x-aws-region header
BedrockRequests ==
    {rq \in [json : BOOLEAN, model : {None, "claude", "llama"},
             stream : BOOLEAN, region : {None, "eu-west-1"}] :
        ~rq.json => (rq.model = None /\ ~rq.stream)}

NoBedrockRequest ==
    [json |-> FALSE, model |-> None, stream |-> FALSE, region |-> None]

\* BedrockProvider::new, fp being the fingerprint drawn for it
BedrockProvider_new(fp) ==
    [base_url           |-> BedrockBaseUrl(DefaultRegion),
     region             |-> DefaultRegion,
     current_model      |-> DEFAULT_MODEL,
     is_streaming       |-> FALSE,
     system_fingerprint |-> fp,
     first_chunk        |-> TRUE]

\* A mutant of InstanceOf: one provider instance serves every request
InstanceShared(r) == "r1"

\* The provider instance request r works on: proxy_request_to_provider calls
\* create_provider itself, so each request has the instance it created
InstanceOf(r) == r

\* BedrockProvider::before_request: the instance afterwards
bedrock_before_request(inst, rq, fp) ==
    LET a == IF rq.json
             THEN [inst EXCEPT
                     !.current_model = IF rq.model # None THEN rq.model ELSE @,
                     !.is_streaming = rq.stream,
                     !.system_fingerprint = fp,
                     !.first_chunk = TRUE]
             ELSE inst
    IN IF rq.region # None
       THEN [a EXCEPT !.region = rq.region,
                      !.base_url = BedrockBaseUrl(rq.region)]
       ELSE a

\* format!("/model/{}/converse-stream", model), format!("/model/{}/converse", ..)
ConversePath(model, streaming) ==
    "/model/" \o model \o (IF streaming THEN "/converse-stream" ELSE "/converse")

\* BedrockProvider::transform_path
bedrock_transform_path(inst) ==
    ConversePath(inst.current_model, inst.is_streaming)

\* The upstream answers a converse-stream call with an event stream
IsConverseStream(p) ==
    \E m \in {DEFAULT_MODEL, "claude", "llama"} : p = ConversePath(m, TRUE)

\* BedrockProvider::get_signing_credentials: the region it returns
bedrock_credentials_region(inst, rq) ==
    IF rq.region # None THEN rq.region ELSE inst.region

NoSig == [region |-> None, host |-> None]

\* Event-stream frames: a contentBlockDelta with delta.text, one without,
\* one whose payload is not JSON, a metadata frame with and without usage,
\* a frame of another event type, and bytes parse_message rejects
Frames ==
    {"delta", "delta_no_text", "delta_not_json", "metadata_usage",
     "metadata_no_usage", "message_start", "garbage"}

\* A data line of the translated stream: what it carries
DataLine(kind, inst, role) ==
    [data |-> kind, model |-> inst.current_model,
     fp |-> inst.system_fingerprint, role |-> role]

\* The line "data: [DONE]"
DoneLine == [data |-> "[DONE]", model |-> None, fp |-> 0, role |-> FALSE]

\* A mutant of create_delta_response: every content chunk carries "role"
create_delta_response_with_role(inst) == DataLine("chunk", inst, TRUE)

\* BedrockProvider::create_delta_response: "role" on the first chunk only
create_delta_response(inst) == DataLine("chunk", inst, inst.first_chunk)

\* BedrockProvider::create_final_response
create_final_response(inst) == DataLine("final", inst, FALSE)

\* BedrockProvider::handle_content_block. An event is the sequence of the
\* lines that precede its blank line: format!("data: {}\n\n", response)
handle_content_block(inst, f) ==
    IF f = "delta_not_json"
    THEN [ok |-> FALSE, events |-> <<>>, first_chunk |-> inst.first_chunk]
    ELSE IF f = "delta"
    THEN [ok |-> TRUE, events |-> << <<create_delta_response(inst)>> >>,
          first_chunk |-> FALSE]
    ELSE [ok |-> TRUE, events |-> <<>>, first_chunk |-> inst.first_chunk]

\* BedrockProvider::handle_metadata:
\* format!("data: {}\ndata: [DONE]\n\n", final_message)
handle_metadata(inst, f) ==
    IF f = "metadata_usage"
    THEN [ok |-> TRUE,
          events |-> << <<create_final_response(inst), DoneLine>> >>,
          first_chunk |-> inst.first_chunk]
    ELSE [ok |-> TRUE, events |-> <<>>, first_chunk |-> inst.first_chunk]

\* BedrockProvider::process_message on the frame at the head of the data
process_message(inst, f) ==
    IF f = "garbage"
    THEN [ok |-> FALSE, events |-> <<>>, first_chunk |-> inst.first_chunk]
    ELSE IF f \in {"delta", "delta_no_text", "delta_not_json"}
    THEN handle_content_block(inst, f)
    ELSE IF f \in {"metadata_usage", "metadata_no_usage"}
    THEN handle_metadata(inst, f)
    ELSE [ok |-> TRUE, events |-> <<>>, first_chunk |-> inst.first_chunk]

\* BedrockProvider::transform_bedrock_chunk: the events of the chunk and the
\* first_chunk flag afterwards; the loop ends at the first Err
RECURSIVE transform_bedrock_chunk(_, _)
transform_bedrock_chunk(inst, remaining) ==
    IF remaining = <<>>
    THEN [events |-> <<>>, first_chunk |-> inst.first_chunk]
    ELSE LET m == process_message(inst, Head(remaining)) IN
         IF ~m.ok
         THEN [events |-> <<>>, first_chunk |-> inst.first_chunk]
         ELSE LET rest == transform_bedrock_chunk(
                              [inst EXCEPT !.first_chunk = m.first_chunk],
                              Tail(remaining))
              IN [events |-> m.events \o rest.events,
                  first_chunk |-> rest.first_chunk]

\* Chunks of a stream the upstream frames correctly
PlainChunks == {<<"delta">>, <<"delta", "metadata_usage">>}

\* Chunks of any content
AnyChunks ==
    PlainChunks \cup
    {<<"message_start", "delta">>, <<"metadata_usage">>, <<"metadata_no_usage">>,
     <<"delta_no_text">>, <<"garbage">>, <<"delta_not_json", "delta">>,
     <<"garbage", "metadata_usage">>, <<"delta", "delta_not_json">>}

BedRest ==
    /\ bPc = [r \in BedrockRequestIds |-> "off"]
    /\ bReq = [r \in BedrockRequestIds |-> NoBedrockRequest]
    /\ bInst = [r \in BedrockRequestIds |-> BedrockProvider_new(0)]
    /\ bUuid = 0
    /\ bFp = [r \in BedrockRequestIds |-> 0]
    /\ bPath = [r \in BedrockRequestIds |-> None]
    /\ bUrl = [r \in BedrockRequestIds |-> None]
    /\ bSig = [r \in BedrockRequestIds |-> NoSig]
    /\ bBody = [r \in BedrockRequestIds |-> None]
    /\ bSeen = [r \in BedrockRequestIds |-> <<>>]
    /\ bOut = [r \in BedrockRequestIds |-> <<>>]

\* The requests of `active` have arrived, the others never do
BedInit(active) ==
    /\ bPc = [r \in BedrockRequestIds |-> IF r \in active THEN "new" ELSE "off"]
    /\ bReq \in [BedrockRequestIds -> BedrockRequests]
    /\ \A r \in BedrockRequestIds \ active : bReq[r] = NoBedrockRequest
    /\ bInst = [r \in BedrockRequestIds |-> BedrockProvider_new(0)]
    /\ bUuid = 0
    /\ bFp = [r \in BedrockRequestIds |-> 0]
    /\ bPath = [r \in BedrockRequestIds |-> None]
    /\ bUrl = [r \in BedrockRequestIds |-> None]
    /\ bSig = [r \in BedrockRequestIds |-> NoSig]
    /\ bBody = [r \in BedrockRequestIds |-> None]
    /\ bSeen = [r \in BedrockRequestIds |-> <<>>]
    /\ bOut = [r \in BedrockRequestIds |-> <<>>]

\* create_provider("bedrock"): Box::new(BedrockProvider::new())
BedrockCreateProvider ==
    \E r \in BedrockRequestIds :
        /\ bPc[r] = "new"
        /\ bUuid' = bUuid + 1
        /\ bInst' = [bInst EXCEPT ![InstanceOf(r)] = BedrockProvider_new(bUuid')]
        /\ bPc' = [bPc EXCEPT ![r] = "created"]
        /\ UNCHANGED <<bReq, bFp, bPath, bUrl, bSig, bBody, bSeen, bOut>>
        /\ UNCHANGED <<pipeVars, teeVars, regVars, slotVars, esVars, trackVars, anthVars, mwVars, listVars>>

\* provider.before_request(headers, &body_bytes)
BedrockBeforeRequest ==
    \E r \in BedrockRequestIds :
        /\ bPc[r] = "created"
        /\ bUuid' = IF bReq[r].json THEN bUuid + 1 ELSE bUuid
        /\ bInst' = [bInst EXCEPT ![InstanceOf(r)] =
                        bedrock_before_request(@, bReq[r], bUuid')]
        /\ bFp' = [bFp EXCEPT ![r] = IF bReq[r].json THEN bUuid' ELSE @]
        /\ bPc' = [bPc EXCEPT ![r] = "prepared"]
        /\ UNCHANGED <<bReq, bPath, bUrl, bSig, bBody, bSeen, bOut>>
        /\ UNCHANGED <<pipeVars, teeVars, regVars, slotVars, esVars, trackVars, anthVars, mwVars, listVars>>

\* provider.transform_path(path)
BedrockTransformPath ==
    \E r \in BedrockRequestIds :
        /\ bPc[r] = "prepared"
        /\ bPath' = [bPath EXCEPT ![r] = bedrock_transform_path(bInst[InstanceOf(r)])]
        /\ bPc' = [bPc EXCEPT ![r] = "pathed"]
        /\ UNCHANGED <<bReq, bInst, bUuid, bFp, bUrl, bSig, bBody, bSeen, bOut>>
        /\ UNCHANGED <<pipeVars, teeVars, regVars, slotVars, esVars, trackVars, anthVars, mwVars, listVars>>

\* provider.prepare_request_body(body_bytes)?: a body that is not JSON ends
\* the request
BedrockPrepareBody ==
    \E r \in BedrockRequestIds :
        /\ bPc[r] = "pathed"
        /\ bPc' = [bPc EXCEPT ![r] = IF bReq[r].json THEN "bodied" ELSE "failed"]
        /\ UNCHANGED <<bReq, bInst, bUuid, bFp, bPath, bUrl, bSig, bBody, bSeen, bOut>>
        /\ UNCHANGED <<pipeVars, teeVars, regVars, slotVars, esVars, trackVars, anthVars, mwVars, listVars>>

\* The URL from provider.base_url(), the signature over the credentials'
\* region, and the send
BedrockSend ==
    \E r \in BedrockRequestIds :
        /\ bPc[r] = "bodied"
        /\ bUrl' = [bUrl EXCEPT ![r] = bInst[InstanceOf(r)].base_url \o bPath[r]]
        /\ LET region == bedrock_credentials_region(bInst[InstanceOf(r)], bReq[r])
           IN bSig' = [bSig EXCEPT ![r] =
                          [region |-> region, host |-> SigningHost(region)]]
        /\ bPc' = [bPc EXCEPT ![r] = "sent"]
        /\ UNCHANGED <<bReq, bInst, bUuid, bFp, bPath, bBody, bSeen, bOut>>
        /\ UNCHANGED <<pipeVars, teeVars, regVars, slotVars, esVars, trackVars, anthVars, mwVars, listVars>>

\* process_response on a JSON answer: transform_bedrock_to_openai_format
BedrockUnaryResponse ==
    \E r \in BedrockRequestIds :
        /\ bPc[r] = "sent"
        /\ ~IsConverseStream(bPath[r])
        /\ bBody' = [bBody EXCEPT ![r] = bInst[InstanceOf(r)].current_model]
        /\ bPc' = [bPc EXCEPT ![r] = "done"]
        /\ UNCHANGED <<bReq, bInst, bUuid, bFp, bPath, bUrl, bSig, bSeen, bOut>>
        /\ UNCHANGED <<pipeVars, teeVars, regVars, slotVars, esVars, trackVars, anthVars, mwVars, listVars>>

\* process_response on an event-stream answer: the body becomes the mapped
\* stream
BedrockStreamResponse ==
    \E r \in BedrockRequestIds :
        /\ bPc[r] = "sent"
        /\ IsConverseStream(bPath[r])
        /\ bPc' = [bPc EXCEPT ![r] = "streaming"]
        /\ UNCHANGED <<bReq, bInst, bUuid, bFp, bPath, bUrl, bSig, bBody, bSeen, bOut>>
        /\ UNCHANGED <<pipeVars, teeVars, regVars, slotVars, esVars, trackVars, anthVars, mwVars, listVars>>

\* The mapped stream yields the translation of upstream chunk c
MapChunk(r, c) ==
    LET t == transform_bedrock_chunk(bInst[InstanceOf(r)], c) IN
    /\ bPc[r] = "streaming"
    /\ Len(bSeen[r]) < MaxBedrockChunks
    /\ bSeen' = [bSeen EXCEPT ![r] = Append(@, c)]
    /\ bOut' = [bOut EXCEPT ![r] = Append(@, t.events)]
    /\ bInst' = [bInst EXCEPT ![InstanceOf(r)].first_chunk = t.first_chunk]
    /\ UNCHANGED <<bPc, bReq, bUuid, bFp, bPath, bUrl, bSig, bBody>>
    /\ UNCHANGED <<pipeVars, teeVars, regVars, slotVars, esVars, trackVars, anthVars, mwVars, listVars>>

\* A chunk of a correctly framed stream
BedrockChunk ==
    \E r \in BedrockRequestIds : \E c \in PlainChunks : MapChunk(r, c)

\* A chunk of any content
BedrockAnyChunk ==
    \E r \in BedrockRequestIds : \E c \in AnyChunks : MapChunk(r, c)

\* The upstream body ends, and the mapped stream with it
BedrockStreamEnds ==
    \E r \in BedrockRequestIds :
        /\ bPc[r] = "streaming"
        /\ bPc' = [bPc EXCEPT ![r] = "done"]
        /\ UNCHANGED <<bReq, bInst, bUuid, bFp, bPath, bUrl, bSig, bBody, bSeen, bOut>>
        /\ UNCHANGED <<pipeVars, teeVars, regVars, slotVars, esVars, trackVars, anthVars, mwVars, listVars>>

\* ------------------------------------------------------------------------
\* The telemetry middleware around the handler: the ids it reads from the
\* request and from the response
\* ------------------------------------------------------------------------

\* providers::utils::TRACKING_HEADERS
TRACKING_HEADERS ==
    {"x-project-id", "x-organization-id", "x-organisation-id", "x-user-id",
     "x-experiment-id"}

\* The value a client sends in tracking header h
ValueOf(h) == "val:" \o h

\* Requests the pipeline forwards, with the tracking headers `present`
TrackedRequests ==
    [r : {r \in Requests :
             /\ r.body = "chat" /\ r.magic = None /\ r.awsRegion = None
             /\ r.openaiOrg = None
             /\ r.xprovider \in {None, "anthropic", "bedrock", "groq",
                                 "fireworks", "together"}
             /\ process_headers(create_provider(HeaderProvider(r)).val, r).ok},
     present : SUBSET TRACKING_HEADERS]

\* headers.get(h).and_then(|h| h.to_str().ok())
TrackingGet(rq, h) == IF h \in rq.present THEN ValueOf(h) ELSE None

\* What the handler returns to the middleware: the id headers, the body kind
\* and whether the content type is text/event-stream
TrackedResponses ==
    [xRequestId : {None, "up-1"}, requestId : {None, "rid-1"},
     body : {"json_id", "json_noid", "not_json"}, streaming : BOOLEAN]

\* metrics_middleware: project_id, org_id, user_id, experiment_id
tracking_ids(rq) ==
    [project_id    |-> TrackingGet(rq, "x-project-id"),
     org_id        |-> TrackingGet(rq, "x-organisation-id"),
     user_id       |-> TrackingGet(rq, "x-user-id"),
     experiment_id |-> TrackingGet(rq, "x-experiment-id")]

\* handle_regular_response / handle_streaming_response: provider_request_id
provider_request_id(resp) ==
    IF resp.xRequestId # None THEN resp.xRequestId ELSE resp.requestId

NoIds ==
    [project_id |-> None, org_id |-> None, user_id |-> None,
     experiment_id |-> None]

NoTrackRecord ==
    [project_id |-> None, org_id |-> None, user_id |-> None,
     experiment_id |-> None, provider_request_id |-> None]

NoTrackedResponse ==
    [xRequestId |-> None, requestId |-> None, body |-> "not_json",
     streaming |-> FALSE]

TrackRest ==
    /\ tkPc = "off"
    /\ tkReq = [r |-> NoRequest, present |-> {}]
    /\ tkIds = NoIds
    /\ tkOut = EmptyHeaders
    /\ tkResp = NoTrackedResponse
    /\ tkRecord = NoTrackRecord

TrackInit ==
    /\ tkPc = "read"
    /\ tkReq \in TrackedRequests
    /\ tkIds = NoIds
    /\ tkOut = EmptyHeaders
    /\ tkResp = NoTrackedResponse
    /\ tkRecord = NoTrackRecord

\* metrics_middleware reads the tracking headers of the request
TrackReadIds ==
    /\ tkPc = "read"
    /\ tkIds' = tracking_ids(tkReq)
    /\ tkPc' = "next"
    /\ UNCHANGED <<tkReq, tkOut, tkResp, tkRecord>>
    /\ UNCHANGED <<pipeVars, teeVars, regVars, slotVars, esVars, bedVars, anthVars, mwVars, listVars>>

\* next.run(new_req): the handler has the provider build the outbound headers
TrackProcessHeaders ==
    /\ tkPc = "next"
    /\ tkOut' = process_headers(create_provider(HeaderProvider(tkReq.r)).val,
                                tkReq.r).val
    /\ tkPc' = "await"
    /\ UNCHANGED <<tkReq, tkIds, tkResp, tkRecord>>
    /\ UNCHANGED <<pipeVars, teeVars, regVars, slotVars, esVars, bedVars, anthVars, mwVars, listVars>>

\* next.run(new_req).await returns the handler's response
TrackResponse ==
    /\ tkPc = "await"
    /\ \E resp \in TrackedResponses : tkResp' = resp
    /\ tkPc' = "record"
    /\ UNCHANGED <<tkReq, tkIds, tkOut, tkRecord>>
    /\ UNCHANGED <<pipeVars, teeVars, regVars, slotVars, esVars, bedVars, anthVars, mwVars, listVars>>

\* The RequestMetrics value the middleware builds for the response
TrackRecord ==
    /\ tkPc = "record"
    /\ tkRecord' = [project_id          |-> tkIds.project_id,
                    org_id              |-> tkIds.org_id,
                    user_id             |-> tkIds.user_id,
                    experiment_id       |-> tkIds.experiment_id,
                    provider_request_id |-> provider_request_id(tkResp)]
    /\ tkPc' = "done"
    /\ UNCHANGED <<tkReq, tkIds, tkOut, tkResp>>
    /\ UNCHANGED <<pipeVars, teeVars, regVars, slotVars, esVars, bedVars, anthVars, mwVars, listVars>>

\* ------------------------------------------------------------------------
\* Anthropic: the translation of a unary response body
\* ------------------------------------------------------------------------

\* stop_reason of an Anthropic response: missing, not a string ("<null>"),
\* or a string
StopReasons ==
    {None, "<null>", "end_turn", "max_tokens", "stop_sequence", "tool_use",
     "refusal"}

\* usage.input_tokens / usage.output_tokens: missing or a count
AnthropicTokenCounts == {Absent, 0, 3, 5}

\* Anthropic response bodies: stop_reason and the usage object
AnthropicBodies ==
    {b \in [stop_reason : StopReasons, hasUsage : BOOLEAN,
            input_tokens : AnthropicTokenCounts,
            output_tokens : AnthropicTokenCounts] :
        ~b.hasUsage => (b.input_tokens = Absent /\ b.output_tokens = Absent)}

\* anthropic_response.get("stop_reason").and_then(|r| r.as_str())
StopReasonStr(b) == IF b.stop_reason = "<null>" THEN None ELSE b.stop_reason

\* transform_anthropic_to_openai_format: finish_reason
anthropic_finish_reason(b) ==
    LET reason == StopReasonStr(b) IN
    CASE reason = "end_turn"      -> "stop"
      [] reason = "max_tokens"    -> "length"
      [] reason = "stop_sequence" -> "stop"
      [] reason = None            -> "stop"
      [] OTHER                    -> reason

\* transform_anthropic_to_openai_format: the usage map
anthropic_usage(b) ==
    LET prompt     == IF b.hasUsage /\ b.input_tokens # Absent
                      THEN b.input_tokens ELSE 0
        completion == IF b.hasUsage /\ b.output_tokens # Absent
                      THEN b.output_tokens ELSE 0
    IN [prompt_tokens |-> prompt, completion_tokens |-> completion,
        total_tokens |-> IF b.hasUsage THEN prompt + completion ELSE 0]

\* transform_anthropic_to_openai_format
transform_anthropic_to_openai_format(b) ==
    [finish_reason |-> anthropic_finish_reason(b), usage |-> anthropic_usage(b)]

NoAnthropicBody ==
    [stop_reason |-> None, hasUsage |-> FALSE, input_tokens |-> Absent,
     output_tokens |-> Absent]

NoTransformed ==
    [finish_reason |-> None,
     usage |-> [prompt_tokens |-> 0, completion_tokens |-> 0, total_tokens |-> 0]]

AnthRest == aPc = "off" /\ aIn = NoAnthropicBody /\ aOut = NoTransformed

AnthInit == aPc = "await" /\ aIn = NoAnthropicBody /\ aOut = NoTransformed

\* The upstream's unary answer has been read and parsed as JSON
AnthropicBodyRead ==
    /\ aPc = "await"
    /\ \E b \in AnthropicBodies : aIn' = b
    /\ aPc' = "transform"
    /\ UNCHANGED aOut
    /\ UNCHANGED <<pipeVars, teeVars, regVars, slotVars, esVars, bedVars, trackVars, mwVars, listVars>>

\* let transformed_response = transform_anthropic_to_openai_format(json)
AnthropicTransform ==
    /\ aPc = "transform"
    /\ aOut' = transform_anthropic_to_openai_format(aIn)
    /\ aPc' = "done"
    /\ UNCHANGED aIn
    /\ UNCHANGED <<pipeVars, teeVars, regVars, slotVars, esVars, bedVars, trackVars, mwVars, listVars>>

\* ------------------------------------------------------------------------
\* metrics_middleware around one request with a unary response
\* ------------------------------------------------------------------------

\* The x-provider header values of the requests below: absent, the names in
\* lower, mixed and upper case, and a name create_provider rejects
MwProviderValues ==
    {None, "openai", "OpenAI", "anthropic", "Anthropic", "ANTHROPIC", "groq",
     "Groq", "azure"}

\* Request bodies, as the bytes received
MwBodies == {"", "{}", "{\"model\":\"m\"}", "model=m", "{\"model\":"}

\* serde_json::from_slice(&bytes).ok() is Some
IsJsonBody(bytes) == bytes \in {"{}", "{\"model\":\"m\"}"}

\* The inbound requests
MwRequests ==
    [method  : {"POST", "GET"},
     uri     : {"/v1/chat/completions", "/v1/messages?beta=1"},
     headers : [xprovider : MwProviderValues, authorization : {None, "Bearer sk"}],
     body    : MwBodies]

NoMwRequest ==
    [method |-> None, uri |-> None,
     headers |-> [xprovider |-> None, authorization |-> None], body |-> ""]

\* A mutant of new_req: the headers of the builder's request are kept
new_req_default_headers(method, uri, hdrs, bytes) ==
    [method |-> method, uri |-> uri,
     headers |-> [xprovider |-> None, authorization |-> None], body |-> bytes]

\* Request::builder().method(original_method).uri(original_uri).body(body),
\* then *new_req.headers_mut() = original_headers
new_req(method, uri, hdrs, bytes) ==
    [method |-> method, uri |-> uri, headers |-> hdrs, body |-> bytes]

\* The bodies an upstream other than Anthropic answers with; the provider
\* returns them as they are
MwUpstreamBodies == {"openai_usage", "groq_usage", "json_nousage", "not_json"}

\* The body the middleware receives from the handler: whether it parses as
\* JSON and what the extractor finds in it
MwResponseOf(b) == [json |-> b # "not_json", pl |-> Payload(b)]

\* The body AnthropicProvider::process_response builds: the transformed
\* object, whose usage has prompt_tokens, completion_tokens and total_tokens
MwTransformedResponse(b) ==
    LET t == transform_anthropic_to_openai_format(b)
    IN [json |-> TRUE,
        pl   |-> [Payload("json_nousage") EXCEPT
                     !.hasUsage = TRUE,
                     !.prompt = t.usage.prompt_tokens,
                     !.completion = t.usage.completion_tokens,
                     !.total = t.usage.total_tokens,
                     !.otherModel = TRUE]]

\* The Anthropic answers of this part: any usage object, one stop_reason
MwAnthropicBodies == {b \in AnthropicBodies : b.stop_reason = "end_turn"}

NoMwRecord ==
    [provider |-> None, path |-> None, method |-> None, request_size |-> 0,
     request_body |-> FALSE, input_tokens |-> Absent, output_tokens |-> Absent,
     total_tokens |-> Absent]

\* handle_regular_response: metrics_extractor.extract_metrics(&json) when the
\* body parses, ProviderMetrics::default() otherwise
regular_response_metrics(ext, resp) ==
    IF resp.json THEN extract_metrics(ext, resp.pl) ELSE NoMetrics

MwRest ==
    /\ mwPc = "off"
    /\ mwIn = NoMwRequest
    /\ mwProvider = None
    /\ mwExt = None
    /\ mwSize = 0
    /\ mwReqBody = FALSE
    /\ mwNew = NoMwRequest
    /\ mwDispatched = None
    /\ mwUpstream = NoAnthropicBody
    /\ mwResp = MwResponseOf("not_json")
    /\ mwRecord = NoMwRecord

MwInit ==
    /\ mwPc = "read"
    /\ mwIn \in MwRequests
    /\ mwProvider = None
    /\ mwExt = None
    /\ mwSize = 0
    /\ mwReqBody = FALSE
    /\ mwNew = NoMwRequest
    /\ mwDispatched = None
    /\ mwUpstream = NoAnthropicBody
    /\ mwResp = MwResponseOf("not_json")
    /\ mwRecord = NoMwRecord

\* metrics_middleware: provider from x-provider, the extractor for it
MwReadProvider ==
    /\ mwPc = "read"
    /\ mwProvider' = HeaderProvider(mwIn.headers)
    /\ mwExt' = get_metrics_extractor(HeaderProvider(mwIn.headers))
    /\ mwPc' = "buffer"
    /\ UNCHANGED <<mwIn, mwSize, mwReqBody, mwNew, mwDispatched, mwUpstream,
                   mwResp, mwRecord>>
    /\ UNCHANGED <<pipeVars, teeVars, regVars, slotVars, esVars, bedVars, trackVars, anthVars, listVars>>

\* metrics_middleware: the body is read, measured, parsed, and the request
\* is rebuilt
MwBufferBody ==
    /\ mwPc = "buffer"
    /\ mwSize' = Len(mwIn.body)
    /\ mwReqBody' = IsJsonBody(mwIn.body)
    /\ mwNew' = new_req(mwIn.method, mwIn.uri, mwIn.headers, mwIn.body)
    /\ mwPc' = "next"
    /\ UNCHANGED <<mwIn, mwProvider, mwExt, mwDispatched, mwUpstream, mwResp,
                   mwRecord>>
    /\ UNCHANGED <<pipeVars, teeVars, regVars, slotVars, esVars, bedVars, trackVars, anthVars, listVars>>

\* next.run(new_req): the handler reads x-provider of the request it was
\* given and creates the provider; an unsupported name is answered with an
\* error body
MwCreateProvider ==
    /\ mwPc = "next"
    /\ LET created == create_provider(HeaderProvider(mwNew.headers))
       IN IF created.ok
          THEN /\ mwDispatched' = created.val
               /\ mwPc' = "upstream"
               /\ UNCHANGED mwResp
          ELSE /\ mwDispatched' = None
               /\ mwResp' = MwResponseOf("json_nousage")
               /\ mwPc' = "handle"
    /\ UNCHANGED <<mwIn, mwProvider, mwExt, mwSize, mwReqBody, mwNew, mwUpstream,
                   mwRecord>>
    /\ UNCHANGED <<pipeVars, teeVars, regVars, slotVars, esVars, bedVars, trackVars, anthVars, listVars>>

\* AnthropicProvider::process_response on a unary JSON answer: the body is
\* replaced by its OpenAI-format translation
MwAnthropicResponse ==
    /\ mwPc = "upstream"
    /\ mwDispatched = "anthropic"
    /\ \E b \in MwAnthropicBodies :
          /\ mwUpstream' = b
          /\ mwResp' = MwTransformedResponse(b)
    /\ mwPc' = "handle"
    /\ UNCHANGED <<mwIn, mwProvider, mwExt, mwSize, mwReqBody, mwNew, mwDispatched,
                   mwRecord>>
    /\ UNCHANGED <<pipeVars, teeVars, regVars, slotVars, esVars, bedVars, trackVars, anthVars, listVars>>

\* Provider::process_response of the other providers, and of Anthropic on a
\* body that is no JSON: the upstream body is returned as it is
MwPassResponse ==
    /\ mwPc = "upstream"
    /\ \E b \in MwUpstreamBodies :
          /\ mwDispatched = "anthropic" => b = "not_json"
          /\ mwResp' = MwResponseOf(b)
    /\ mwPc' = "handle"
    /\ UNCHANGED <<mwIn, mwProvider, mwExt, mwSize, mwReqBody, mwNew, mwDispatched,
                   mwUpstream, mwRecord>>
    /\ UNCHANGED <<pipeVars, teeVars, regVars, slotVars, esVars, bedVars, trackVars, anthVars, listVars>>

\* handle_regular_response: the RequestMetrics value
MwRecord ==
    /\ mwPc = "handle"
    /\ LET m == regular_response_metrics(mwExt, mwResp)
       IN mwRecord' = [provider      |-> mwProvider,
                       path          |-> mwIn.uri,
                       method        |-> mwIn.method,
                       request_size  |-> mwSize,
                       request_body  |-> mwReqBody,
                       input_tokens  |-> m.input,
                       output_tokens |-> m.output,
                       total_tokens  |-> m.total]
    /\ mwPc' = "done"
    /\ UNCHANGED <<mwIn, mwProvider, mwExt, mwSize, mwReqBody, mwNew, mwDispatched,
                   mwUpstream, mwResp>>
    /\ UNCHANGED <<pipeVars, teeVars, regVars, slotVars, esVars, bedVars, trackVars, anthVars, listVars>>

\* ------------------------------------------------------------------------
\* MetricsRegistry with any list of exporters
\* ------------------------------------------------------------------------

MaxExporters == 2
MaxListRecords == 2

\* The position in the Vec of the exporter that
\* exporters.iter().find(|e| e.name() == name) returns, 0 for None
FindByName(exps, name) ==
    IF \E i \in 1..Len(exps) : exps[i] = name
    THEN CHOOSE i \in 1..Len(exps) :
            exps[i] = name /\ \A j \in 1..(i - 1) : exps[j] # name
    ELSE 0

\* The tasks record_metrics spawns for record k: one per collected name
SpawnedTasks(k, names) ==
    [i \in 1..Len(names) |-> [rec |-> k, name |-> names[i], st |-> "spawned"]]

ListRest ==
    /\ lExporters = <<>>
    /\ lWriter = None
    /\ lReaders = 0
    /\ lRecords = 0
    /\ lSnap = [k \in 1..MaxListRecords |-> 0]
    /\ lTasks = <<>>
    /\ lCalls = [k \in 1..MaxListRecords |-> [i \in 1..MaxExporters |-> 0]]

\* register_exporter is called and asks for the write lock
ListRegisterBegin ==
    /\ lWriter = None
    /\ Len(lExporters) < MaxExporters
    /\ \E n \in ExporterNames : lWriter' = n
    /\ UNCHANGED <<lExporters, lReaders, lRecords, lSnap, lTasks, lCalls>>
    /\ UNCHANGED <<pipeVars, teeVars, regVars, slotVars, esVars, bedVars, trackVars, anthVars, mwVars>>

\* register_exporter gets the write lock once no read guard is held, pushes
\* the exporter and returns
ListRegisterPush ==
    /\ lWriter # None
    /\ lReaders = 0
    /\ lExporters' = Append(lExporters, lWriter)
    /\ lWriter' = None
    /\ UNCHANGED <<lReaders, lRecords, lSnap, lTasks, lCalls>>
    /\ UNCHANGED <<pipeVars, teeVars, regVars, slotVars, esVars, bedVars, trackVars, anthVars, mwVars>>

\* record_metrics: the names are collected under a read guard dropped at the
\* end of the block, then one task is spawned per name. The lock is fair: a
\* read is not granted while a writer waits.
ListRecordMetrics ==
    /\ lRecords < MaxListRecords
    /\ lWriter = None
    /\ lRecords' = lRecords + 1
    /\ lSnap' = [lSnap EXCEPT ![lRecords + 1] = Len(lExporters)]
    /\ lTasks' = lTasks \o SpawnedTasks(lRecords + 1, lExporters)
    /\ UNCHANGED <<lExporters, lWriter, lReaders, lCalls>>
    /\ UNCHANGED <<pipeVars, teeVars, regVars, slotVars, esVars, bedVars, trackVars, anthVars, mwVars>>

\* A spawned task takes its read guard, finds the exporter by name and
\* calls its export_metrics
ListExportBegin ==
    /\ lWriter = None
    /\ \E t \in 1..Len(lTasks) :
          /\ lTasks[t].st = "spawned"
          /\ LET i == FindByName(lExporters, lTasks[t].name)
             IN /\ i # 0
                /\ lCalls' = [lCalls EXCEPT ![lTasks[t].rec][i] = @ + 1]
          /\ lTasks' = [lTasks EXCEPT ![t].st = "exporting"]
    /\ lReaders' = lReaders + 1
    /\ UNCHANGED <<lExporters, lWriter, lRecords, lSnap>>
    /\ UNCHANGED <<pipeVars, teeVars, regVars, slotVars, esVars, bedVars, trackVars, anthVars, mwVars>>

\* export_metrics returns, Ok or Err: the task ends and drops its guard
ListExportEnd ==
    /\ \E t \in 1..Len(lTasks) :
          /\ lTasks[t].st = "exporting"
          /\ lTasks' = [lTasks EXCEPT ![t].st = "done"]
    /\ lReaders' = lReaders - 1
    /\ UNCHANGED <<lExporters, lWriter, lRecords, lSnap, lCalls>>
    /\ UNCHANGED <<pipeVars, teeVars, regVars, slotVars, esVars, bedVars, trackVars, anthVars, mwVars>>

\* ------------------------------------------------------------------------
\* Specifications
\* ------------------------------------------------------------------------

vars ==
    <<pipeVars, teeVars, regVars, slotVars, esVars, bedVars, trackVars, anthVars,
      mwVars, listVars>>

\* The parts a specification leaves at rest
TeeRest == tProvider = "openai" /\ TeeIdle
SlotRest ==
    /\ slot = [th \in Threads |-> Absent]
    /\ sStart = [s \in Streams |-> Absent]
    /\ sPos = [s \in Streams |-> 0]
    /\ sFinal = [s \in Streams |-> NoMetrics]

\* One inbound request through the proxy pipeline
Init ==
    PipeInit /\ TeeRest /\ RegInit /\ SlotRest /\ EsRest
    /\ BedRest /\ TrackRest /\ AnthRest /\ MwRest /\ ListRest

Next ==
    \/ Receive
    \/ CreateProvider
    \/ BeforeRequest
    \/ ProcessHeaders
    \/ TransformPath
    \/ PrepareRequestBody
    \/ Sign
    \/ SignFails
    \/ Send
    \/ UpstreamFails
    \/ UpstreamResponds
    \/ PipelineResponse
    \/ ProviderResponse
    \/ HandlerOk
    \/ HandlerErr

Spec == Init /\ [][Next]_vars

\* One response through the telemetry middleware
InitTee ==
    PipeInit /\ TeeInit /\ RegInit /\ SlotRest /\ EsRest
    /\ BedRest /\ TrackRest /\ AnthRest /\ MwRest /\ ListRest

NextTee ==
    \/ HandleRegularResponse
    \/ HandleStreamingResponse
    \/ TeeRecv
    \/ TeeSend
    \/ TeeSendFails
    \/ UpstreamEnds
    \/ TeeFinish
    \/ ClientRecv
    \/ ClientEnd
    \/ ClientDisconnect
    \/ StartExport

SpecTee == InitTee /\ [][NextTee]_vars

\* The registry: start-up, record_metrics calls and their export tasks.
\* The runtime schedules the caller; nothing makes an export finish.
InitRegistry ==
    PipeInit /\ TeeRest /\ RegInit /\ SlotRest /\ EsRest
    /\ BedRest /\ TrackRest /\ AnthRest /\ MwRest /\ ListRest

NextRegistry ==
    \/ RegisterExporter
    \/ StartServing
    \/ RecordMetricsBegin
    \/ RecordMetricsSpawn
    \/ RecordMetricsReturn
    \/ ExportBegin
    \/ ExportOk
    \/ ExportErr

SpecRegistry ==
    /\ InitRegistry
    /\ [][NextRegistry]_vars
    /\ WF_vars(RecordMetricsSpawn)
    /\ WF_vars(RecordMetricsReturn)

\* Anthropic streams whose events are extracted on the worker threads
InitSlot ==
    PipeInit /\ TeeRest /\ RegInit /\ SlotInit /\ EsRest
    /\ BedRest /\ TrackRest /\ AnthRest /\ MwRest /\ ListRest

NextSlot ==
    \/ ExtractMessageStart
    \/ ExtractMessageDelta

SpecSlot == InitSlot /\ [][NextSlot]_vars

\* One record through the Elasticsearch exporter
InitEs ==
    PipeInit /\ TeeRest /\ RegInit /\ SlotRest /\ EsRest
    /\ BedRest /\ TrackRest /\ AnthRest /\ MwRest /\ ListRest

NextEs ==
    \/ EsExportMetrics
    \/ EsSkip
    \/ EsSendMetrics
    \/ EsAttempt
    \/ EsExported
    \/ EsFailed

SpecEs == InitEs /\ [][NextEs]_vars

\* Two Bedrock requests in flight at once, their steps interleaved
InitBedrock ==
    PipeInit /\ TeeRest /\ RegInit /\ SlotRest /\ EsRest /\ BedInit(BedrockRequestIds)
    /\ TrackRest /\ AnthRest /\ MwRest /\ ListRest

NextBedrock ==
    \/ BedrockCreateProvider
    \/ BedrockBeforeRequest
    \/ BedrockTransformPath
    \/ BedrockPrepareBody
    \/ BedrockSend
    \/ BedrockUnaryResponse
    \/ BedrockStreamResponse
    \/ BedrockChunk
    \/ BedrockStreamEnds

SpecBedrock == InitBedrock /\ [][NextBedrock]_vars

\* One Bedrock request whose upstream stream carries frames of any kind
InitBedrockStream ==
    PipeInit /\ TeeRest /\ RegInit /\ SlotRest /\ EsRest /\ BedInit({"r1"})
    /\ TrackRest /\ AnthRest /\ MwRest /\ ListRest

NextBedrockStream ==
    \/ BedrockCreateProvider
    \/ BedrockBeforeRequest
    \/ BedrockTransformPath
    \/ BedrockPrepareBody
    \/ BedrockSend
    \/ BedrockUnaryResponse
    \/ BedrockStreamResponse
    \/ BedrockAnyChunk
    \/ BedrockStreamEnds

SpecBedrockStream == InitBedrockStream /\ [][NextBedrockStream]_vars

\* One request through the telemetry middleware and the handler it wraps
InitTrack ==
    PipeInit /\ TeeRest /\ RegInit /\ SlotRest /\ EsRest /\ BedRest /\ TrackInit
    /\ AnthRest /\ MwRest /\ ListRest

NextTrack ==
    \/ TrackReadIds
    \/ TrackProcessHeaders
    \/ TrackResponse
    \/ TrackRecord

SpecTrack == InitTrack /\ [][NextTrack]_vars

\* One Anthropic unary response through the translation
InitAnthropic ==
    PipeInit /\ TeeRest /\ RegInit /\ SlotRest /\ EsRest /\ BedRest /\ TrackRest
    /\ AnthInit /\ MwRest /\ ListRest

NextAnthropic ==
    \/ AnthropicBodyRead
    \/ AnthropicTransform

SpecAnthropic == InitAnthropic /\ [][NextAnthropic]_vars

\* The telemetry middleware around one request with a unary response
InitMiddleware ==
    PipeInit /\ TeeRest /\ RegInit /\ SlotRest /\ EsRest /\ BedRest /\ TrackRest
    /\ AnthRest
    /\ MwInit /\ ListRest

NextMiddleware ==
    \/ MwReadProvider
    \/ MwBufferBody
    \/ MwCreateProvider
    \/ MwAnthropicResponse
    \/ MwPassResponse
    \/ MwRecord

SpecMiddleware == InitMiddleware /\ [][NextMiddleware]_vars

\* A registry that exporters are registered with, under any names, while
\* records are passed to it
InitList ==
    PipeInit /\ TeeRest /\ RegInit /\ SlotRest /\ EsRest /\ BedRest /\ TrackRest
    /\ AnthRest
    /\ MwRest /\ ListRest

NextList ==
    \/ ListRegisterBegin
    \/ ListRegisterPush
    \/ ListRecordMetrics
    \/ ListExportBegin
    \/ ListExportEnd

SpecList == InitList /\ [][NextList]_vars

\* ------------------------------------------------------------------------
\* Properties
\* ------------------------------------------------------------------------

IsPrefix(a, b) == Len(a) <= Len(b) /\ SubSeq(b, 1, Len(a)) = a

\* The request in the pipeline names a provider the gateway does not support
UnknownProvider == req # NoRequest /\ DispatchOf(req.xprovider) = None

C2_BedrockAlwaysSigned ==
    \A i \in 1..Len(sent) :
        sent[i].provider = "bedrock" =>
            /\ sent[i].headers.headers["authorization"] = "AWS4-HMAC-SHA256"
            /\ sent[i].headers.amzDate # Absent
            /\ sent[i].headers.amzDate = FormatAmzDate(sent[i].headers.sig.instant)

\* The response the client got is the upstream's, passed through the provider
Proxied == pc = "done" /\ sent # <<>> /\ error = None

\* C3: every proxied response returned to the client carries a non-empty
\* x-request-id header.
C3_RequestIdNonEmpty == Proxied => client.xRequestId \notin {None, ""}

\* The response was a unary one: its record says so
Unary == records # <<>> /\ ~records[1].is_streaming

\* C4: the chunks the tee delivers to the client of a streaming response are
\* the chunks the upstream produced, unmodified and in the same order, with none dropped in the
\* middle, duplicated or reordered; when the client sees the end of the
\* stream it has received every chunk.
C4_TeeByteIdentical ==
    ~Unary =>
        /\ IsPrefix(forwarded, produced)
        /\ IsPrefix(delivered, forwarded)
        /\ rxAlive => delivered \o channel = forwarded
        /\ clientEnded => delivered = produced

C4_Witness ==
    /\ clientEnded
    /\ Len(forwarded) >= 3
    /\ delivered = produced
    /\ produced[1] # produced[2]
    /\ "bin" \in Range(produced)

\* C5: the input tokens in the metrics returned for a stream's message_delta
\* are those of the same stream's message_start (none if it carried none).
C5_SlotRequestScoped ==
    \A s \in Streams : sPos[s] = 2 => sFinal[s].input = sStart[s]

\* C6: at most one outbound request is made for an inbound request, also
\* when the send fails or the upstream answers with an error status.
C6_AtMostOneSend == Len(sent) <= 1

C6_Witness ==
    /\ pc = "done"
    /\ Len(sent) = 1
    /\ error = "ReqwestError"
    /\ client.status = 502

\* C7: a record_metrics call returns, and its caller returns the response it
\* holds unchanged, whatever the export tasks do: exports in progress (of
\* this or an earlier record) that fail or never finish do not hold it up.
C7_RecordMetricsNonBlocking ==
    /\ [](IsPrefix(outResp, inResp))
    /\ (callPc = "spawning") ~> (callPc = "idle" /\ Len(outResp) = Len(inResp))

C7_Witness ==
    /\ Len(outResp) = 2
    /\ outResp = inResp
    /\ tasks[1]["elasticsearch"] = "exporting"
    /\ tasks[1]["console"] = "err"
    /\ tasks[2]["console"] = "spawned"

C9_ExactlyOneRecord == teePc = "done" => Len(records) = 1

\* C10: once the client has gone away in mid-stream nothing more reaches
\* it, and when a send has failed for that reason and the task has ended, a
\* record with the metrics accumulated up to then has been handed to the
\* registry.
C10_RecordOnDisconnect ==
    /\ ~rxAlive => channel = <<>>
    /\ (sendFailed /\ forwarded # <<>> /\ teePc = "done") =>
           /\ Len(records) = 1
           /\ records[1].response_size = acc.size

\* C11: in every record handed to the registry, for every provider and for
\* unary and streaming responses alike, when input_tokens, output_tokens and
\* total_tokens are all set, total_tokens = input_tokens + output_tokens.
C11_TotalIsSum ==
    \A i \in 1..Len(records) :
        (/\ records[i].input_tokens # Absent
         /\ records[i].output_tokens # Absent
         /\ records[i].total_tokens # Absent)
        => records[i].total_tokens
              = records[i].input_tokens + records[i].output_tokens

\* C12: for a unary response, the response_size of its record is the length
\* of the body returned to the client, and that body is the bytes the
\* pipeline produced.
C12_UnarySizeIsBodyLength ==
    Unary =>
        /\ Len(delivered) = 1
        /\ delivered = produced
        /\ records[1].response_size = ChunkLen(delivered[1])

C12_Witness ==
    /\ Unary
    /\ teePc = "done"
    /\ delivered = <<"openai_usage">>
    /\ records[1].response_size = ChunkLen("openai_usage")
    /\ records[1].response_size > 0

\* The outbound headers that carry a credential
CredentialHeaders ==
    {"authorization", "x-api-key", "x-aws-access-key-id", "x-aws-secret-access-key"}

\* C13: every Anthropic request that is sent upstream carries exactly one
\* credential header, x-api-key, and no authorization header; an Anthropic
\* request without an authorization header fails with MissingApiKey and is
\* not sent.
C13_AnthropicApiKeyOnly ==
    /\ \A i \in 1..Len(sent) :
          sent[i].provider = "anthropic" =>
              {h \in CredentialHeaders : sent[i].headers.headers[h] # None}
                 = {"x-api-key"}
    /\ (provider = "anthropic" /\ req.auth = None) =>
          /\ sent = <<>>
          /\ pc \in {"handler_err", "done"} => error = "MissingApiKey"
          /\ pc = "done" => client.status = 401

C13_Witness ==
    /\ pc = "done"
    /\ sent # <<>>
    /\ sent[1].provider = "anthropic"
    /\ req.auth = "Bearer sk"
    /\ sent[1].headers.headers["x-api-key"] = "sk"
    /\ sent[1].headers.headers["authorization"] = None

\* The request was dispatched to Fireworks or Together and has been answered
BearerProviderDone == provider \in {"fireworks", "together"} /\ pc = "done"

\* The header value begins with "Bearer " / has nothing after it
BeginsWithBearer(a) == a \in {"Bearer ", "Bearer sk", OpaqueAuth}
EmptyToken(a) == a = "Bearer "

\* The request was refused with error kind e and status st, and nothing sent
RefusedWith(e, st) ==
    /\ error = e
    /\ client.status = st
    /\ client.errType = e
    /\ sent = <<>>

\* The request went out once, with the authorization value as received
ForwardedUnchanged ==
    /\ Len(sent) = 1
    /\ sent[1].headers.headers["authorization"] = req.auth

\* C14 as stated: for Fireworks and Together, no authorization header is
\* answered 401 MissingApiKey; a value that does not begin with "Bearer " or
\* has an empty token is answered 400 InvalidHeader; neither is sent; any
\* other value is forwarded unchanged.
C14_BearerRequired ==
    BearerProviderDone =>
        IF req.auth = None THEN RefusedWith("MissingApiKey", 401)
        ELSE IF ~BeginsWithBearer(req.auth) \/ EmptyToken(req.auth)
        THEN RefusedWith("InvalidHeader", 400)
        ELSE ForwardedUnchanged

\* C14, amended: an authorization header that is absent or whose value is
\* not visible ASCII is answered 401 MissingApiKey; a readable value that
\* does not begin with "Bearer " or has an empty token is answered 400
\* InvalidHeader; neither is sent; any other value is forwarded unchanged.
C14_BearerRequiredReadable ==
    BearerProviderDone =>
        IF ToStr(req.auth) = None THEN RefusedWith("MissingApiKey", 401)
        ELSE IF ~BeginsWithBearer(req.auth) \/ EmptyToken(req.auth)
        THEN RefusedWith("InvalidHeader", 400)
        ELSE ForwardedUnchanged

C14_Witness ==
    /\ provider = "together"
    /\ pc = "done"
    /\ req.auth = "Bearer "
    /\ RefusedWith("InvalidHeader", 400)

\* The status the taxonomy gives an error kind (Absent: not stated)
TaxonomyStatus(e) ==
    CASE e \in {"UnsupportedProvider", "InvalidMethod", "InvalidHeader",
                "InvalidRequestFormat", "InvalidHeaderValue", "UnsupportedModel",
                "JsonError", "JsonParseError", "RequestError"} -> 400
      [] e = "MissingApiKey" -> 401
      [] e \in {"InvalidStatus", "ReqwestError"} -> 502
      [] e \in {"IoError", "AwsSigningError", "AwsParamsError"} -> 500
      [] OTHER -> Absent

\* C15: every pipeline error is answered with the status the taxonomy gives
\* its kind (400, 401, 502 for a bad upstream status or a failed upstream
\* request, 500 for I/O and AWS errors) and with a body
\* {error: {message, type}} whose type is the error kind.
C15_ErrorTaxonomy ==
    (pc = "done" /\ error # None) =>
        /\ TaxonomyStatus(error) # Absent => client.status = TaxonomyStatus(error)
        /\ client.body = "error_json"
        /\ client.errType = error

\* A 4xx answer to an index attempt ends the export of the record
NoAttemptAfter4xx ==
    \A i \in 1..Len(esOutcomes) :
        is_client_error(esOutcomes[i]) => i = Len(esOutcomes) /\ esPc # "attempt"

\* A 5xx answer is followed by another attempt
AttemptAfter5xx ==
    \A i \in 1..Len(esOutcomes) :
        is_server_error(esOutcomes[i]) =>
            \/ i < Len(esOutcomes)
            \/ esPc = "attempt"
            \/ esLeft = 0

\* C16: after a 4xx answer from Elasticsearch the exporter makes no further
\* index attempt for the record; after a 5xx answer it retries.
C16_RetryOn5xxOnly == NoAttemptAfter4xx /\ AttemptAfter5xx

\* C17: the Elasticsearch exporter makes at most 3 index attempts for one
\* record, whatever the failures, and then reports the failure to the
\* registry, which only logs it.
C17_AtMostThreeAttempts ==
    /\ Len(esOutcomes) <= 3
    /\ (esPc = "done" /\ esResult = "err") => esLogged = 1

\* C18: GET /health is answered 200, and for a record whose path is /health
\* the Elasticsearch exporter makes no index attempt and returns success.
C18_HealthNotExported ==
    esRecord.path = "/health" =>
        /\ esRecord.status = 200
        /\ esOutcomes = <<>>
        /\ esPc \in {"export", "done"}
        /\ esPc = "done" => (esResult = "ok" /\ esLogged = 0)

C18_Witness ==
    /\ esRecord = [path |-> "/health", status |-> 200]
    /\ esPc = "done"
    /\ esResult = "ok"
    /\ esOutcomes = <<>>

\* The stream has a message_start that carries input tokens and ends with a
\* message_delta that carries output tokens
StartThenDelta ==
    /\ teePc = "done"
    /\ ~Unary
    /\ Len(produced) >= 2
    /\ produced[Len(produced)] = "msg_delta"
    /\ \E i \in 1..(Len(produced) - 1) : produced[i] = "msg_start"

\* C19: for an Anthropic stream whose message_start carries input_tokens = i
\* and whose later message_delta carries output_tokens = o, the record
\* emitted has input_tokens = i, output_tokens = o and total_tokens = i + o.
C19_AnthropicStreamCombines ==
    (tProvider = "anthropic" /\ StartThenDelta) =>
        /\ Len(records) = 1
        /\ records[1].input_tokens = Payload("msg_start").startInput
        /\ records[1].output_tokens = Payload("msg_delta").output
        /\ records[1].total_tokens
              = Payload("msg_start").startInput + Payload("msg_delta").output

\* No chunk of the stream carries usage
NoUsageChunk ==
    \A i \in 1..Len(produced) :
        ~Payload(produced[i]).hasUsage /\ ~Payload(produced[i]).xgroq

\* C20: for an OpenAI or Groq stream in which no chunk carries usage, the
\* record emitted has output_tokens = ceil(len(accumulated_text) / 4) and
\* input_tokens and total_tokens unset.
C20_EstimatedOutputTokens ==
    (/\ tProvider \in {"openai", "groq"}
     /\ teePc = "done"
     /\ ~Unary
     /\ NoUsageChunk
     /\ records # <<>>) =>
        /\ records[1].output_tokens = EstimateTokens(acc.text)
        /\ records[1].input_tokens = Absent
        /\ records[1].total_tokens = Absent

\* The model a Bedrock request names, the default when it names none
OwnModel(r) == IF bReq[r].model # None THEN bReq[r].model ELSE DEFAULT_MODEL

\* The region a Bedrock request names, the default when it names none
OwnRegion(r) == IF bReq[r].region # None THEN bReq[r].region ELSE DefaultRegion

\* The lines of a translated stream, in order
RECURSIVE Flatten(_)
Flatten(seqs) == IF seqs = <<>> THEN <<>> ELSE Head(seqs) \o Flatten(Tail(seqs))

LinesOf(r) == Flatten(Flatten(bOut[r]))

\* The content lines of request r, in order
ChunkLinesOf(r) == SelectSeq(LinesOf(r), LAMBDA l : l.data = "chunk")

\* C21: under any interleaving of concurrent Bedrock requests, the path,
\* the URL, the signed region, the model of a unary response and the model,
\* fingerprint and first-chunk marker of every streamed line of a request
\* come from that request's own body and headers.
C21_BedrockStatePerRequest ==
    \A r \in BedrockRequestIds :
        /\ bPc[r] \in {"sent", "streaming", "done"} =>
              /\ bPath[r] = ConversePath(OwnModel(r), bReq[r].stream)
              /\ bUrl[r] = BedrockBaseUrl(OwnRegion(r)) \o bPath[r]
              /\ bSig[r].region = OwnRegion(r)
        /\ (bPc[r] = "done" /\ ~bReq[r].stream) => bBody[r] = OwnModel(r)
        /\ \A i \in 1..Len(LinesOf(r)) :
              LinesOf(r)[i].data # "[DONE]" =>
                  /\ LinesOf(r)[i].model = OwnModel(r)
                  /\ LinesOf(r)[i].fp = bFp[r]
        /\ \A i \in 1..Len(ChunkLinesOf(r)) :
              ChunkLinesOf(r)[i].role = (i = 1)

\* Two streaming requests that name different models and regions have been
\* prepared before either was sent, and both have streamed two content lines
C21_Witness ==
    /\ bReq["r1"].model = "claude" /\ bReq["r2"].model = "llama"
    /\ bReq["r1"].region # bReq["r2"].region
    /\ bFp["r1"] > bFp["r2"] /\ bFp["r2"] > 2
    /\ Len(ChunkLinesOf("r1")) = 2 /\ Len(ChunkLinesOf("r2")) = 2
    /\ bPc["r1"] = "done" /\ bPc["r2"] = "streaming"

\* The events request r's client has received, in order
EventsOf(r) == Flatten(bOut[r])

\* C22: when a Bedrock streaming response has ended, whatever frames the
\* upstream sent, the client has received a sequence of events each of which
\* is one data line followed by a blank line, the last being "data: [DONE]".
C22_SseEndsWithDone ==
    \A r \in BedrockRequestIds :
        (bPc[r] = "done" /\ IsConverseStream(bPath[r])) =>
            /\ EventsOf(r) # <<>>
            /\ \A i \in 1..Len(EventsOf(r)) : Len(EventsOf(r)[i]) = 1
            /\ EventsOf(r)[Len(EventsOf(r))] = <<DoneLine>>

\* A frame that is dropped although it parses: it has a frame before it in
\* its chunk, the frame alone in a chunk yields events, and the chunk's
\* translation holds none of them.
Dropped(r, i, k) ==
    LET c == bSeen[r][i] IN
    /\ k > 1
    /\ c[k] \in {"delta", "metadata_usage"}
    /\ \A e \in 1..Len(bOut[r][i]) : bOut[r][i][e][1].data # "chunk"
    /\ \A e \in 1..Len(bOut[r][i]) : bOut[r][i][e][1].data # "final"

\* C23: a frame that cannot be parsed is skipped alone: every valid frame
\* after it, in the same chunk or a later one, is translated and delivered.
C23_OnlyBadFrameSkipped ==
    \A r \in BedrockRequestIds :
        \A i \in 1..Len(bSeen[r]) :
            \A k \in 1..Len(bSeen[r][i]) : ~Dropped(r, i, k)

\* C24: for every signed Bedrock request, the host the signature covers is
\* the value of get_signing_host(), and that is the host of the outbound URL.
C24_SignedHostIsUrlHost ==
    \A i \in 1..Len(sent) :
        (sent[i].provider = "bedrock" /\ sent[i].headers.sig.host # None) =>
            /\ sent[i].headers.sig.host = get_signing_host(sent[i].provider, req)
            /\ get_signing_host(sent[i].provider, req) = HostOfUrl(sent[i].url[1])

\* The headers sign_aws_request signs, and the authorization header that
\* carries the signature
SignedHeaderNames == {"host", "content-type", "x-amz-target", "authorization"}

\* C25: every header of an outbound Bedrock request belongs to the signed
\* header set; x-aws-secret-access-key and x-aws-access-key-id are never sent.
C25_OnlySignedHeadersSent ==
    \A i \in 1..Len(sent) :
        sent[i].provider = "bedrock" =>
            /\ sent[i].headers.headers["x-aws-secret-access-key"] = None
            /\ sent[i].headers.headers["x-aws-access-key-id"] = None
            /\ \A h \in OutHeaderNames :
                  sent[i].headers.headers[h] # None => h \in SignedHeaderNames

\* C26: the provider_request_id of a record is the response's x-request-id
\* header when present, else its request-id header, else the id of the JSON
\* body, else a synthesized id; it is never absent.
C26_ProviderRequestId ==
    tkPc = "done" =>
        /\ tkRecord.provider_request_id # None
        /\ tkResp.xRequestId # None =>
              tkRecord.provider_request_id = tkResp.xRequestId
        /\ (tkResp.xRequestId = None /\ tkResp.requestId # None) =>
              tkRecord.provider_request_id = tkResp.requestId
        /\ (tkResp.xRequestId = None /\ tkResp.requestId = None
              /\ ~tkResp.streaming /\ BodyId(tkResp.body) # None) =>
              tkRecord.provider_request_id = BodyId(tkResp.body)

\* The two spellings of the organisation header
OrgSpellings == {"x-organization-id", "x-organisation-id"}

\* The value of tracking header h is in the record
Copied(h) ==
    ValueOf(h) \in {tkRecord.project_id, tkRecord.org_id, tkRecord.user_id,
                    tkRecord.experiment_id}

\* C29: for every provider, no tracking header is in the outbound header
\* set, and the value of every tracking header the request carries is in the
\* telemetry record (one of the two when both organisation spellings are sent).
C29_TrackingHeadersRecordedNotSent ==
    tkPc = "done" =>
        /\ \A h \in TRACKING_HEADERS : tkOut[h] = None
        /\ \A h \in tkReq.present :
              \/ Copied(h)
              \/ h \in OrgSpellings /\ \E g \in OrgSpellings \cap tkReq.present : Copied(g)

\* C27: an OpenAI request is sent with the caller's authorization value;
\* x-magicapi-api-key, as "Bearer <key>", is used only when the request has
\* no authorization header, so with both present the outbound authorization
\* is the caller's authorization.
C27_AuthorizationBeforeMagicKey ==
    \A i \in 1..Len(sent) :
        sent[i].provider = "openai" =>
            /\ ToStr(req.auth) # None =>
                  sent[i].headers.headers["authorization"] = req.auth
            /\ (req.auth = None /\ req.magic # None) =>
                  sent[i].headers.headers["authorization"] = "Bearer " \o req.magic

\* C28: an OpenAI request goes upstream with its body, its path and its
\* headers other than the credential headers as the caller sent them.
C28_OpenAIPassesThrough ==
    \A i \in 1..Len(sent) :
        sent[i].provider = "openai" =>
            /\ sent[i].body = req.body
            /\ sent[i].url[2] = req.path
            /\ sent[i].headers.headers["openai-organization"] = req.openaiOrg

\* C30: in the Anthropic unary translation finish_reason is "length" for
\* stop_reason max_tokens and "stop" for end_turn, stop_sequence, every other
\* value and a missing stop_reason.
C30_FinishReasonStopOrLength ==
    aPc = "done" =>
        /\ aOut.finish_reason \in {"stop", "length"}
        /\ aOut.finish_reason = "length" <=> aIn.stop_reason = "max_tokens"

\* The steps of proxy_request_to_provider in the order of the code; the URL
\* is built with the prepared body, the two process_response calls follow
\* the send
StepOrder ==
    <<"create_provider", "before_request", "process_headers", "transform_path",
      "prepare_request_body", "sign", "send", "await_upstream",
      "pipeline_response", "provider_response", "handler_ok">>

\* The step after step p
StepAfter(p) ==
    LET i == CHOOSE k \in 1..Len(StepOrder) : StepOrder[k] = p
    IN IF i < Len(StepOrder) THEN StepOrder[i + 1] ELSE "done"

\* Errors of the steps that precede the send
ErrorsBeforeSend ==
    {"UnsupportedProvider", "MissingApiKey", "InvalidHeader", "JsonError",
     "InvalidRequestFormat", "AwsSigningError"}

\* A step of the pipeline: the next step in order, or the error return
InOrder ==
    /\ pc' # pc =>
          \/ pc = "idle" /\ pc' = "create_provider"
          \/ pc \in {"handler_ok", "handler_err"} /\ pc' = "done"
          \/ pc \notin {"idle", "handler_ok", "handler_err", "done"}
                /\ pc' \in {StepAfter(pc), "handler_err"}
    /\ sent' # sent => pc = "send" /\ error = None
    /\ url' # url => pc = "prepare_request_body" /\ path # None

\* C31: the pipeline steps of a request run in the order before_request,
\* process_headers, transform_path, prepare_request_body and URL, signing,
\* send, process_response; once a step has returned an error no later step
\* runs, and after an error of a step before the send nothing has been sent.
C31_StepsInOrder ==
    /\ [][InOrder]_vars
    /\ [](error # None => pc \in {"handler_err", "done"})
    /\ [](error \in ErrorsBeforeSend => sent = <<>> /\ upstream = NoUpstream)

\* The signing of a Bedrock request failed after every earlier step had run;
\* the request was answered without anything having been sent
C31_Witness ==
    /\ pc = "done"
    /\ error = "AwsSigningError"
    /\ path # None /\ body = "converse" /\ url # None
    /\ sent = <<>>

\* The lines of request r that are chunks: content chunks and the final
\* usage chunk
JsonLinesOf(r) == SelectSeq(LinesOf(r), LAMBDA l : l.data # "[DONE]")

\* C32: in a Bedrock stream exactly one emitted chunk has delta.role, the
\* first content chunk; every chunk, the final usage chunk included, carries
\* the system_fingerprint generated for the request.
C32_RoleOnceSameFingerprint ==
    \A r \in BedrockRequestIds :
        /\ Cardinality({i \in 1..Len(JsonLinesOf(r)) : JsonLinesOf(r)[i].role})
              = IF ChunkLinesOf(r) = <<>> THEN 0 ELSE 1
        /\ ChunkLinesOf(r) # <<>> => ChunkLinesOf(r)[1].role
        /\ \A i \in 1..Len(JsonLinesOf(r)) :
              /\ JsonLinesOf(r)[i].fp = bFp[r]
              /\ JsonLinesOf(r)[i].fp # 0

\* A stream of two chunks has ended: content, then content and the final
\* usage chunk
C32_Witness ==
    /\ bPc["r1"] = "done"
    /\ bSeen["r1"] = << <<"message_start", "delta">>, <<"delta", "metadata_usage">> >>
    /\ Len(ChunkLinesOf("r1")) = 2
    /\ Len(JsonLinesOf("r1")) = 3

C37_ExtractorOfDispatchedProvider ==
    (mwPc = "done" /\ mwDispatched # None) =>
        /\ mwExt = get_metrics_extractor(mwDispatched)
        /\ mwRecord.provider = mwDispatched

\* C38: for an Anthropic unary response with usage input_tokens = i and
\* output_tokens = o, the body returned has prompt_tokens = i,
\* completion_tokens = o, total_tokens = i + o and the telemetry record has
\* input_tokens = i, output_tokens = o, total_tokens = i + o.
C38_AnthropicUsageInBodyAndRecord ==
    (/\ mwPc = "done"
     /\ mwDispatched = "anthropic"
     /\ mwUpstream.hasUsage
     /\ mwUpstream.input_tokens # Absent
     /\ mwUpstream.output_tokens # Absent) =>
        LET i == mwUpstream.input_tokens
            o == mwUpstream.output_tokens
        IN /\ mwResp.pl.prompt = i
           /\ mwResp.pl.completion = o
           /\ mwResp.pl.total = i + o
           /\ mwRecord.input_tokens = i
           /\ mwRecord.output_tokens = o
           /\ mwRecord.total_tokens = i + o

\* The tasks whose export_metrics call is in progress
Exporting == {t \in 1..Len(lTasks) : lTasks[t].st = "exporting"}

\* C34: no task holds the exporter-list lock while an export call is in
\* progress, so a waiting register_exporter is never kept from the lock by
\* an export.
C34_NoLockAcrossExport ==
    Exporting # {} => (lReaders = 0 /\ (lWriter # None => ENABLED ListRegisterPush))

\* Every task spawned for record k has ended
AllExported(k) == \A t \in 1..Len(lTasks) : lTasks[t].rec = k => lTasks[t].st = "done"

\* C35: for every record passed to record_metrics and every exporter
\* registered at that time, export_metrics of that exporter is called exactly
\* once with the record, whatever names the exporters report.
C35_EachExporterOnce ==
    \A k \in 1..lRecords :
        /\ \A i \in 1..MaxExporters : lCalls[k][i] <= 1
        /\ AllExported(k) => \A i \in 1..lSnap[k] : lCalls[k][i] = 1

\* The metrics the stream's extractor returns for data line c
LineMetrics(c) == extract_streaming_metrics(get_metrics_extractor(tProvider), Payload(c))

\* Data line c yields token counts
YieldsCounts(c) ==
    /\ IsUtf8(c) /\ ~WholeJson(c) /\ DataJson(c)
    /\ LineMetrics(c).some
    /\ \/ LineMetrics(c).metrics.input # Absent
       \/ LineMetrics(c).metrics.output # Absent
       \/ LineMetrics(c).metrics.total # Absent

\* The last line of the stream that yielded token counts
LastWithCounts ==
    CHOOSE i \in 1..Len(produced) :
        /\ YieldsCounts(produced[i])
        /\ \A j \in (i + 1)..Len(produced) : ~YieldsCounts(produced[j])

\* C36: once a data line of a streaming response has yielded token counts,
\* the record emitted at the end of the stream carries those counts, whatever
\* lines follow it.
C36_CountsSurviveLaterLines ==
    (/\ teePc = "done"
     /\ ~Unary
     /\ records # <<>>
     /\ \E i \in 1..Len(produced) : YieldsCounts(produced[i])) =>
        LET m == LineMetrics(produced[LastWithCounts]).metrics
        IN /\ records[1].input_tokens = m.input
           /\ records[1].output_tokens = m.output
           /\ records[1].total_tokens = m.total

====
